---- MODULE Spec2Model ----
(***************************************************************************)
(* Receipt ingestion pipeline of oodog/Xero-AzureAi-receipts               *)
(* (src/azure_functions.py, src/email_processing_service.py).              *)
(*                                                                         *)
(* The record store, the blob store and the ledger are the state; every    *)
(* handler is a sequence of steps, one per external call, so that a        *)
(* failed call (an exception the code swallows or propagates) is a         *)
(* branch of the step that makes it.                                       *)
(***************************************************************************)
EXTENDS Integers, Sequences, FiniteSets, TLC

\* ---------------------------------------------------------------- bounds
\* Clock values are 0..MaxTime (seconds, as int(time.time()) truncates).
MaxTime == 1
\* Number of record-store / blob-store calls that may raise in one behaviour.
MaxFaults == 1

\* ------------------------------------------------------------- constants
\* blobs[:5] in scheduled_processing_function
SweepCap == 5

\* Python's None, and a present value
None == << >>
Some(x) == << x >>

\* Tenant ids are strings; they are kept as their '-'-separated segments so
\* that str.split('-') is computed, not assumed.  <<"acme">> is "acme",
\* <<"f3a1", "9c2e">> is "f3a1-9c2e" (the shape uuid.uuid4() produces).
TenantIds == { <<"acme">>, <<"f3a1", "9c2e">> }

Workers == { "w1", "w2" }

\* The document bytes a user may upload under a key.
Bytes == { "B1" }

\* Merchant names the extractor may return.
Merchants == { "Acme" }

\* str(n) for the small integers of the model
DecimalStr(n) == << "0", "1", "2", "3", "4", "5", "6", "7", "8", "9" >>[n + 1]

\* f"tenant-{tenant_id}-{stage}"
ContainerName(t, stage) == [ tenant |-> t, stage |-> stage ]

\* Blob names are '/'-separated paths, kept as their segments.
UploadKeys(t) == { << "r1.pdf" >> }

\* hash(filename) % 10000, as a decimal string: a function of the name.
HashOf(name) ==
    IF Len(name) > 2 THEN "42"
    ELSE IF Len(name) < 2 THEN "17"
    ELSE CASE name[2] = "r2.pdf" -> "18"
           [] name[2] = "r3.pdf" -> "19"
           [] name[2] = "r4.pdf" -> "20"
           [] name[2] = "r5.pdf" -> "21"
           [] name[2] = "r6.pdf" -> "22"
           [] OTHER -> "17"

\* str.upper()
Upper(s) == CASE s = "Acme" -> "ACME"
              [] s = "ACME" -> "ACME"
              [] OTHER -> s

VARIABLES
    now,          \* the clock, in whole seconds
    faults,       \* store calls that have raised so far
    tenants,      \* tenants container: tenant id -> document (partial)
    integrations, \* integrations container: tenant id -> "none" | "partial" | "full"
    uploads,      \* tenant-{id}-uploads: tenant id -> set of [name, bytes]
    processing,   \* tenant-{id}-processing
    complete,     \* tenant-{id}-complete
    receipts,     \* receipts container: set of receipt documents
    contacts,     \* ledger contacts: tenant id -> sequence of names (ContactID = index)
    bills,        \* ledger draft bills: set of [id, tenant, doc, contact]
    pc,           \* per worker: the step its invocation is at
    cur,          \* per worker: the invocation's locals
    sweep,        \* per worker: the sweeper's loop state
    calc,         \* extraction result -> receipt_data -> invoice request
    limiter,      \* rate_limiter: the XeroRateLimiter instance of the process
    vault,        \* key vault secret xero-token-{tenant}: the token bundle
    tok,          \* get_xero_access_token and its caller: locals
    autopay,      \* auto_pay_bills_function: tenant settings, loop state
    payments,     \* ledger payments accepted
    audit,        \* audit container
    mail,         \* inbound email webhook: deliveries so far
    wire          \* outbound requests of the running sync or auto-pay call

\* The variables of the ingestion pipeline.
ingest == << now, faults, tenants, integrations, uploads, processing, complete,
             receipts, contacts, bills, pc, cur, sweep >>

\* The variables of the other components.
aux == << calc, limiter, vault, tok, autopay, payments, audit, mail, wire >>

vars == << ingest, aux >>

stores == << tenants, integrations, uploads, processing, complete, receipts,
             contacts, bills >>

\* ------------------------------------------------------------ the stores

\* A blob namespace is a set of [name, bytes] with one entry per name.
BlobNames(ns) == { b.name : b \in ns }

\* blob_client.upload_blob(content, overwrite=True)
PutBlob(ns, name, bytes) ==
    { b \in ns : b.name # name } \cup { [ name |-> name, bytes |-> bytes ] }

\* blob_client.delete_blob(): removes the blob of that name
DelBlob(ns, name) == { b \in ns : b.name # name }

\* container.read_item(item=id, partition_key=pk) on the receipts container,
\* which is partitioned by tenantId: the documents found (none: NotFound).
ReadReceipt(id, pk) == { r \in receipts : r.id = id /\ r.tenantId = pk }

\* receipt_id.split('-')[0]
FirstSegment(id) == << Head(id) >>

\* container.replace_item(item=id, body=doc): the document with body's id in
\* body's partition is replaced.
ReplaceReceipt(old, new) == (receipts \ { old }) \cup { new }

\* Whether one more store call may raise.
CanFault == faults < MaxFaults

\* The other components at rest.
NoCalc == [ stage |-> "none" ]
NewLimiter ==
    [ request_times |-> << >>, last_rate_limit_time |-> None,
      branch |-> "none", rejected_at |-> None, after_rejection |-> {} ]
NoTok == [ stage |-> "idle" ]
NoAutoPay == [ stage |-> "idle" ]
NoMail ==
    [ deliveries |-> 0, marked |-> {}, redelivery_uploads |-> 0,
      redelivery_records |-> 0 ]
NoWire ==
    [ stage |-> "idle", kind |-> "none", log |-> << >>, answers |-> << >>,
      bills |-> 0 ]

AuxIdle ==
    /\ calc = NoCalc
    /\ limiter = NewLimiter
    /\ vault = << >>
    /\ tok = NoTok
    /\ autopay = NoAutoPay
    /\ payments = {}
    /\ audit = {}
    /\ mail = NoMail
    /\ wire = NoWire

\* The locals of an invocation that is not running.
NoCall ==
    [ caller |-> "none", tenant |-> None, name |-> None, bytes |-> "none",
      merchant |-> "none", rid |-> None, existing |-> 0, contact |-> 0,
      invoice |-> 0,
      xeroOK |-> FALSE, sync |-> "none", usage |-> None, result |-> "none",
      why |-> "none", extracted |-> "none", deleted |-> "none", calls |-> {},
      snap |-> None ]

\* The sweeper's loop state: the tenants and blobs still to visit, and what
\* the run has done so far (the tenants the query returned and those
\* visited, the blobs selected, those whose download was attempted and
\* those passed to process_receipt_blob).
NoSweep ==
    [ tenants |-> << >>, blobs |-> << >>, tenant |-> None,
      queried |-> << >>, visited |-> << >>, selected |-> << >>,
      tried |-> << >>, passed |-> << >> ]

\* A tenant document as TenantService.create_tenant writes it (the fields the
\* pipeline reads); settings.processingEnabled may have been switched off.
TenantDocs ==
    [ status : { "active" }, processingEnabled : BOOLEAN,
      receiptsProcessed : { 0 }, lastProcessing : { None } ]

Init ==
    /\ now = 0
    /\ faults = 0
    /\ \/ tenants = << >>
       \/ \E d \in TenantDocs : tenants = [ t \in TenantIds |-> d ]
    /\ \E i \in { "none", "partial", "full" } :
          /\ integrations = [ t \in TenantIds |-> i ]
          /\ i # "none" => \A t \in TenantIds :
                 t \in DOMAIN tenants /\ tenants[t].processingEnabled
    /\ uploads = [ t \in TenantIds |-> {} ]
    /\ processing = [ t \in TenantIds |-> {} ]
    /\ complete = [ t \in TenantIds |-> {} ]
    /\ receipts = {}
    /\ contacts = [ t \in TenantIds |-> << >> ]
    /\ bills = {}
    /\ pc = [ w \in Workers |-> "idle" ]
    /\ cur = [ w \in Workers |-> NoCall ]
    /\ sweep = [ w \in Workers |-> NoSweep ]
    /\ AuxIdle

AllIdle == \A w \in Workers : pc[w] = "idle"

\* The ingestion pipeline before any invocation.
IngestIdle ==
    /\ now = 0
    /\ faults = 0
    /\ tenants = << >>
    /\ integrations = [ t \in TenantIds |-> "none" ]
    /\ uploads = [ t \in TenantIds |-> {} ]
    /\ processing = [ t \in TenantIds |-> {} ]
    /\ complete = [ t \in TenantIds |-> {} ]
    /\ receipts = {}
    /\ contacts = [ t \in TenantIds |-> << >> ]
    /\ bills = {}
    /\ pc = [ w \in Workers |-> "idle" ]
    /\ cur = [ w \in Workers |-> NoCall ]
    /\ sweep = [ w \in Workers |-> NoSweep ]

\* ------------------------------------------------------- the environment

\* One second passes.  Within one process_receipt_blob call the clock is read
\* for createdAt, processedAt and lastProcessing only, so seconds pass
\* between calls.
Tick ==
    /\ now < MaxTime
    /\ \A w \in Workers : pc[w] \in { "idle", "sweep_tenant", "sweep_blob" }
    /\ now' = now + 1
    /\ UNCHANGED << faults, stores, pc, cur, sweep >>
    /\ UNCHANGED aux

\* A user puts a document into the tenant's upload namespace (SAS upload),
\* or puts it again.  A behaviour follows one document.
Upload(t, k, b) ==
    /\ AllIdle
    /\ \A t2 \in TenantIds : \A x \in uploads[t2] : t2 = t /\ x.name = k
    /\ uploads' = [ uploads EXCEPT ![t] = PutBlob(@, k, b) ]
    /\ UNCHANGED << now, faults, tenants, integrations, processing, complete,
                    receipts, contacts, bills, pc, cur, sweep >>
    /\ UNCHANGED aux

\* f"email_{timestamp}_{email_hash}_{filename}", one name per second
EmailFileName(time) ==
    << "email_0_r1.pdf", "email_1_r1.pdf", "email_2_r1.pdf", "email_3_r1.pdf",
       "email_4_r1.pdf", "email_5_r1.pdf", "email_6_r1.pdf", "email_7_r1.pdf",
       "email_8_r1.pdf", "email_9_r1.pdf" >>[time + 1]

\* The document _create_receipt_record builds:
\* id f"{tenant_id}-email-{int(datetime.utcnow().timestamp())}".
email_receipt_document(t, name, time) ==
    [ id |-> t \o << "email", DecimalStr(time) >>, tenantId |-> t,
      filename |-> name, merchant |-> "None", status |-> "uploaded",
      createdAt |-> time, processedAt |-> None, xeroInvoiceId |-> None,
      xeroStatus |-> "pending" ]

\* EmailReceiptProcessor._process_attachment for an attachment of an
\* accepted email: upload_blob(overwrite=True) into the upload namespace
\* (an exception ends the attachment), then _create_receipt_record, whose
\* create_item exception (a conflict, a store failure) is swallowed.
EmailAttachment(t, b) ==
    /\ AllIdle
    /\ LET name == << EmailFileName(now) >>
           doc == email_receipt_document(t, name, now)
       IN  /\ \A t2 \in TenantIds : \A x \in uploads[t2] :
                 t2 = t /\ x.name = name
           /\ \E up_ok, rec_ok \in BOOLEAN :
                 /\ ~(up_ok /\ rec_ok) => CanFault
                 /\ faults' = IF up_ok /\ rec_ok THEN faults ELSE faults + 1
                 /\ uploads' = IF up_ok
                               THEN [ uploads EXCEPT ![t] = PutBlob(@, name, b) ]
                               ELSE uploads
                 /\ receipts' =
                      IF up_ok /\ rec_ok /\
                         ~\E r \in receipts :
                             r.id = doc.id /\ r.tenantId = doc.tenantId
                      THEN receipts \cup { doc }
                      ELSE receipts
    /\ UNCHANGED << now, tenants, integrations, processing, complete,
                    contacts, bills, pc, cur, sweep >>
    /\ UNCHANGED aux

\* --------------------------------------------------- process_receipt_blob

\* Path format: tenant-{tenant_id}-uploads/{filename}; the tenant id is what
\* is left of the first path segment without 'tenant-' and '-uploads'.
extract_tenant_id_from_path(path) ==
    IF Len(path) >= 1 /\ Head(path).stage = "uploads"
    THEN Some(Head(path).tenant)
    ELSE None

\* What an invocation can see of the stores when it starts.
Snapshot ==
    [ receipts |-> receipts, processing |-> processing, complete |-> complete,
      tenants |-> tenants, uploads |-> uploads, bills |-> bills,
      contacts |-> contacts ]

\* process_receipt_blob(blob, tenant_id) is entered: blob.read() has the bytes.
Enter(w, caller, t, name, bytes) ==
    /\ cur' = [ cur EXCEPT ![w] =
                  [ NoCall EXCEPT !.caller = caller, !.tenant = t,
                                  !.name = name, !.bytes = bytes,
                                  !.snap = Some(Snapshot) ] ]
    /\ pc' = [ pc EXCEPT ![w] = "get_tenant" ]

\* return from process_receipt_blob
Leave(w, result, why) ==
    /\ cur' = [ cur EXCEPT ![w].result = result, ![w].why = why ]
    /\ pc' = [ pc EXCEPT ![w] = "done" ]

\* main(myblob): the blob trigger fires for a blob of an upload container;
\* myblob.name is '<container>/<blob name>'.
BlobTrigger(w, t, b) ==
    /\ pc[w] = "idle"
    /\ b \in uploads[t]
    /\ LET path == << ContainerName(t, "uploads") >> \o b.name
           tid == extract_tenant_id_from_path(path)
       IN  /\ tid # None
           /\ Enter(w, "trigger", tid[1], path, b.bytes)
    /\ UNCHANGED << now, faults, stores, sweep >>
    /\ UNCHANGED aux

\* Seeded fault: the tenant's processing switch is not consulted.
ProcessingAllowedIgnoringSwitch(t, read_ok) ==
    read_ok /\ t \in DOMAIN tenants

\* if not tenant or not tenant['settings']['processingEnabled']: return False
\* (read_ok: the read_item of get_tenant did not raise)
ProcessingAllowed(t, read_ok) ==
    read_ok /\ t \in DOMAIN tenants /\ tenants[t].processingEnabled

\* get_tenant(tenant_id): read_item, None on any exception; then the
\* processingEnabled test of process_receipt_blob.
GetTenant(w) ==
    /\ pc[w] = "get_tenant"
    /\ \E ok \in BOOLEAN :
         /\ ~ok => CanFault
         /\ faults' = IF ok THEN faults ELSE faults + 1
         /\ IF ProcessingAllowed(cur[w].tenant, ok)
            THEN /\ pc' = [ pc EXCEPT ![w] = "extract" ]
                 /\ UNCHANGED cur
            ELSE Leave(w, "False", "disabled")
    /\ UNCHANGED << now, stores, sweep >>
    /\ UNCHANGED aux

\* Seeded fault: the usage bookkeeping and cleanup run although the
\* extraction failed.
AfterExtractFailureBookkeeping == "usage_read"

\* if not receipt_data: return False -- where process_receipt_blob goes when
\* the extraction failed.
AfterExtractFailure == "done"

\* extract_receipt_data_from_blob: the document-understanding call either
\* returns fields or raises (then None is returned).
Extract(w) ==
    /\ pc[w] = "extract"
    /\ \/ \E m \in Merchants :
            /\ cur' = [ cur EXCEPT ![w].merchant = m,
                                   ![w].extracted = "ok",
                                   ![w].calls = @ \cup { "extract" } ]
            /\ pc' = [ pc EXCEPT ![w] = "store" ]
       \/ /\ cur' = [ cur EXCEPT ![w].calls = @ \cup { "extract" },
                                 ![w].extracted = "failed",
                                 ![w].result = "False",
                                 ![w].why = "extract_failed" ]
          /\ pc' = [ pc EXCEPT ![w] = AfterExtractFailure ]
    /\ UNCHANGED << now, faults, stores, sweep >>
    /\ UNCHANGED aux

\* f"{tenant_id}-{int(time.time())}-{hash(filename) % 10000}"
ReceiptId(t, time, name) == t \o << DecimalStr(time), HashOf(name) >>

\* The document store_receipt_data builds.
receipt_document(t, name, merchant, time) ==
    [ id |-> ReceiptId(t, time, name), tenantId |-> t, filename |-> name,
      merchant |-> merchant, status |-> "processing", createdAt |-> time,
      processedAt |-> None, xeroInvoiceId |-> None, xeroStatus |-> "None" ]

\* Seeded fault: the write is an upsert, no conflict is ever raised.
CreateNeverConflicts(doc) == FALSE

\* container.create_item(doc): Conflict when the partition holds the id.
CreateConflict(doc) ==
    \E r \in receipts : r.id = doc.id /\ r.tenantId = doc.tenantId

\* store_receipt_data: create_item raises on a conflict or a store failure,
\* and the exception leaves process_receipt_blob through its except branch.
StoreReceipt(w) ==
    /\ pc[w] = "store"
    /\ LET doc == receipt_document(cur[w].tenant, cur[w].name,
                                   cur[w].merchant, now)
       IN  \E ok \in BOOLEAN :
             /\ ~ok => CanFault
             /\ faults' = IF ok THEN faults ELSE faults + 1
             /\ IF ok /\ ~CreateConflict(doc)
                THEN /\ receipts' = receipts \cup { doc }
                     /\ cur' = [ cur EXCEPT ![w].rid = doc.id ]
                     /\ pc' = [ pc EXCEPT ![w] = "to_processing" ]
                ELSE /\ receipts' = receipts
                     /\ Leave(w, "False", "exception")
    /\ UNCHANGED << now, tenants, integrations, uploads, processing, complete,
                    contacts, bills, sweep >>
    /\ UNCHANGED aux

\* move_blob_to_processing: upload_blob(overwrite=True); an exception is
\* logged and swallowed.
MoveToProcessing(w) ==
    /\ pc[w] = "to_processing"
    /\ \E ok \in BOOLEAN :
         /\ ~ok => CanFault
         /\ faults' = IF ok THEN faults ELSE faults + 1
         /\ processing' =
              IF ok
              THEN [ processing EXCEPT ![cur[w].tenant] =
                       PutBlob(@, cur[w].name, cur[w].bytes) ]
              ELSE processing
    /\ pc' = [ pc EXCEPT ![w] = "xero_config" ]
    /\ UNCHANGED << now, tenants, integrations, uploads, complete, receipts,
                    contacts, bills, cur, sweep >>
    /\ UNCHANGED aux

\* ---------------------------------------------------------- process_to_xero

\* Seeded fault: the update writes xeroStatus and forgets xeroInvoiceId.
update_receipt_xero_info_status_only(rid, invoice_id, xero_status, ok) ==
    LET found == ReadReceipt(rid, FirstSegment(rid))
    IN  IF ok /\ found # {}
        THEN LET r == CHOOSE r \in found : TRUE
             IN  ReplaceReceipt(r, [ r EXCEPT !.xeroStatus = xero_status ])
        ELSE receipts

\* update_receipt_xero_info(receipt_id, invoice_id, xero_status): read_item
\* in partition receipt_id.split('-')[0], set both fields, replace_item; any
\* exception (NotFound, a store failure) is logged and swallowed.
update_receipt_xero_info(rid, invoice_id, xero_status, ok) ==
    LET found == ReadReceipt(rid, FirstSegment(rid))
    IN  IF ok /\ found # {}
        THEN LET r == CHOOSE r \in found : TRUE
             IN  ReplaceReceipt(r, [ r EXCEPT !.xeroInvoiceId = invoice_id,
                                              !.xeroStatus = xero_status ])
        ELSE receipts

\* update_receipt_status(receipt_id, status): as above, for status and
\* processedAt.
update_receipt_status(rid, status, ok) ==
    LET found == ReadReceipt(rid, FirstSegment(rid))
    IN  IF ok /\ found # {}
        THEN LET r == CHOOSE r \in found : TRUE
             IN  ReplaceReceipt(r, [ r EXCEPT !.status = status,
                                              !.processedAt = Some(now) ])
        ELSE receipts

\* Seeded fault: the failed step is recorded and the invoice is created
\* all the same.
SyncFailsAndGoesOn(w, why) ==
    /\ cur' = [ cur EXCEPT ![w].sync = why ]
    /\ pc' = [ pc EXCEPT ![w] = "invoice" ]


\* process_to_xero returns False before any update of the receipt.
SyncFails(w, why) ==
    /\ cur' = [ cur EXCEPT ![w].sync = why ]
    /\ pc' = [ pc EXCEPT ![w] = "update_status" ]

\* get_xero_integration(tenant_id): read_item, None on any exception.
XeroConfig(w) ==
    /\ pc[w] = "xero_config"
    /\ \E ok \in BOOLEAN :
         /\ ~ok => CanFault
         /\ faults' = IF ok THEN faults ELSE faults + 1
         /\ IF ok /\ integrations[cur[w].tenant] # "none"
            THEN /\ pc' = [ pc EXCEPT ![w] = "xero_token" ]
                 /\ UNCHANGED cur
            ELSE SyncFails(w, "not_configured")
    /\ UNCHANGED << now, stores, sweep >>
    /\ UNCHANGED aux

\* get_xero_access_token: a token or None; with a token, the arguments of
\* create_or_get_xero_contact are evaluated, and xero_config["xeroTenantId"]
\* raises KeyError for a configuration saved without it.
XeroToken(w) ==
    /\ pc[w] = "xero_token"
    /\ \E token \in BOOLEAN :
         IF ~token
         THEN /\ cur' = [ cur EXCEPT ![w].sync = "no_token",
                                     ![w].calls = @ \cup { "token" } ]
              /\ pc' = [ pc EXCEPT ![w] = "update_status" ]
         ELSE /\ cur' = [ cur EXCEPT ![w].calls = @ \cup { "token" } ]
              /\ pc' = [ pc EXCEPT ![w] =
                           IF integrations[cur[w].tenant] = "partial"
                           THEN "xero_error" ELSE "contact_search" ]
    /\ UNCHANGED << now, faults, stores, sweep >>
    /\ UNCHANGED aux

\* The first contact of the search response whose name equals the merchant
\* name case-insensitively (0: none).
ExactMatch(cs, merchant) ==
    LET hits == { i \in 1..Len(cs) : Upper(cs[i]) = Upper(merchant) }
    IN  IF hits = {} THEN 0
        ELSE CHOOSE i \in hits : \A j \in hits : i <= j

\* create_or_get_xero_contact, the search: GET /Contacts.
XeroContactSearch(w) ==
    /\ pc[w] = "contact_search"
    /\ \E resp \in { "ok", "not_ok", "raise" } :
         LET hit == ExactMatch(contacts[cur[w].tenant], cur[w].merchant)
         IN  IF resp = "raise"
             THEN /\ cur' = [ cur EXCEPT ![w].sync = "no_contact",
                                 ![w].existing = hit,
                                 ![w].calls = @ \cup { "contact_search" } ]
                  /\ pc' = [ pc EXCEPT ![w] = "update_status" ]
             ELSE IF resp = "ok" /\ hit # 0
             THEN /\ cur' = [ cur EXCEPT ![w].contact = hit,
                                 ![w].existing = hit,
                                 ![w].calls = @ \cup { "contact_search" } ]
                  /\ pc' = [ pc EXCEPT ![w] = "invoice" ]
             ELSE /\ cur' = [ cur EXCEPT
                                 ![w].existing = hit,
                                 ![w].calls = @ \cup { "contact_search" } ]
                  /\ pc' = [ pc EXCEPT ![w] = "contact_create" ]
    /\ UNCHANGED << now, faults, stores, sweep >>
    /\ UNCHANGED aux

\* create_or_get_xero_contact, the create: PUT /Contacts.
XeroContactCreate(w) ==
    /\ pc[w] = "contact_create"
    /\ LET t == cur[w].tenant
       IN  \/ /\ contacts' = [ contacts EXCEPT ![t] = Append(@, cur[w].merchant) ]
              /\ cur' = [ cur EXCEPT ![w].contact = Len(contacts[t]) + 1,
                                     ![w].calls = @ \cup { "contact_create" } ]
              /\ pc' = [ pc EXCEPT ![w] = "invoice" ]
           \/ /\ contacts' = contacts
              /\ cur' = [ cur EXCEPT ![w].sync = "no_contact",
                                     ![w].calls = @ \cup { "contact_create" } ]
              /\ pc' = [ pc EXCEPT ![w] = "update_status" ]
    /\ UNCHANGED << now, faults, tenants, integrations, uploads, processing,
                    complete, receipts, bills, sweep >>
    /\ UNCHANGED aux

\* create_xero_invoice: POST /Invoices; the InvoiceID on success, None on a
\* non-success response or an exception.
XeroInvoice(w) ==
    /\ pc[w] = "invoice"
    /\ \/ LET id == Cardinality(bills) + 1
          IN  /\ bills' = bills \cup { [ id |-> id, tenant |-> cur[w].tenant,
                                         doc |-> cur[w].name,
                                         contact |-> cur[w].contact ] }
              /\ cur' = [ cur EXCEPT ![w].invoice = id,
                                     ![w].calls = @ \cup { "invoice_create" } ]
              /\ pc' = [ pc EXCEPT ![w] = "xero_update" ]
       \/ /\ bills' = bills
          /\ cur' = [ cur EXCEPT ![w].sync = "no_invoice",
                                 ![w].calls = @ \cup { "invoice_create" } ]
          /\ pc' = [ pc EXCEPT ![w] = "update_status" ]
    /\ UNCHANGED << now, faults, tenants, integrations, uploads, processing,
                    complete, receipts, contacts, sweep >>
    /\ UNCHANGED aux

\* update_receipt_xero_info(receipt_id, invoice_id, "success"); return True
XeroUpdateInfo(w) ==
    /\ pc[w] = "xero_update"
    /\ \E ok \in BOOLEAN :
         /\ ~ok => CanFault
         /\ faults' = IF ok THEN faults ELSE faults + 1
         /\ receipts' = update_receipt_xero_info(cur[w].rid,
                            Some(cur[w].invoice), "success", ok)
    /\ cur' = [ cur EXCEPT ![w].xeroOK = TRUE, ![w].sync = "success" ]
    /\ pc' = [ pc EXCEPT ![w] = "to_complete" ]
    /\ UNCHANGED << now, tenants, integrations, uploads, processing, complete,
                    contacts, bills, sweep >>
    /\ UNCHANGED aux

\* except Exception: update_receipt_xero_info(receipt_id, None, "error");
\* return False
XeroError(w) ==
    /\ pc[w] = "xero_error"
    /\ \E ok \in BOOLEAN :
         /\ ~ok => CanFault
         /\ faults' = IF ok THEN faults ELSE faults + 1
         /\ receipts' = update_receipt_xero_info(cur[w].rid, None, "error", ok)
    /\ cur' = [ cur EXCEPT ![w].sync = "exception" ]
    /\ pc' = [ pc EXCEPT ![w] = "update_status" ]
    /\ UNCHANGED << now, tenants, integrations, uploads, processing, complete,
                    contacts, bills, sweep >>
    /\ UNCHANGED aux

\* ------------------------------------- process_receipt_blob, after the sync

\* move_blob_to_complete, on xero_success only; an exception is swallowed.
MoveToComplete(w) ==
    /\ pc[w] = "to_complete"
    /\ \E ok \in BOOLEAN :
         /\ ~ok => CanFault
         /\ faults' = IF ok THEN faults ELSE faults + 1
         /\ complete' =
              IF ok
              THEN [ complete EXCEPT ![cur[w].tenant] =
                       PutBlob(@, cur[w].name, cur[w].bytes) ]
              ELSE complete
    /\ pc' = [ pc EXCEPT ![w] = "update_status" ]
    /\ UNCHANGED << now, tenants, integrations, uploads, processing, receipts,
                    contacts, bills, cur, sweep >>
    /\ UNCHANGED aux

\* The status process_receipt_blob asks for after the sync.
FinalStatus(xero_success) == IF xero_success THEN "completed" ELSE "failed"

\* update_receipt_status(receipt_id, "completed" | "failed")
UpdateStatus(w) ==
    /\ pc[w] = "update_status"
    /\ \E ok \in BOOLEAN :
         /\ ~ok => CanFault
         /\ faults' = IF ok THEN faults ELSE faults + 1
         /\ receipts' = update_receipt_status(cur[w].rid,
                            FinalStatus(cur[w].xeroOK), ok)
    /\ pc' = [ pc EXCEPT ![w] = "usage_read" ]
    /\ UNCHANGED << now, tenants, integrations, uploads, processing, complete,
                    contacts, bills, cur, sweep >>
    /\ UNCHANGED aux

\* update_tenant_usage, the read_item; an exception ends the update.
UsageRead(w) ==
    /\ pc[w] = "usage_read"
    /\ \E ok \in BOOLEAN :
         /\ ~ok => CanFault
         /\ faults' = IF ok THEN faults ELSE faults + 1
         /\ IF ok /\ cur[w].tenant \in DOMAIN tenants
            THEN /\ cur' = [ cur EXCEPT ![w].usage = Some(tenants[cur[w].tenant]) ]
                 /\ pc' = [ pc EXCEPT ![w] = "usage_write" ]
            ELSE /\ cur' = cur
                 /\ pc' = [ pc EXCEPT ![w] = "delete" ]
    /\ UNCHANGED << now, stores, sweep >>
    /\ UNCHANGED aux

\* update_tenant_usage, the replace_item of the document read, with
\* receiptsProcessed += 1 and lastProcessing set.
UsageWrite(w) ==
    /\ pc[w] = "usage_write"
    /\ \E ok \in BOOLEAN :
         /\ ~ok => CanFault
         /\ faults' = IF ok THEN faults ELSE faults + 1
         /\ tenants' =
              IF ok
              THEN LET doc == cur[w].usage[1]
                   IN  [ tenants EXCEPT ![cur[w].tenant] =
                           [ doc EXCEPT !.receiptsProcessed = @ + 1,
                                        !.lastProcessing = Some(now) ] ]
              ELSE tenants
    /\ cur' = [ cur EXCEPT ![w].usage = None ]
    /\ pc' = [ pc EXCEPT ![w] = "delete" ]
    /\ UNCHANGED << now, integrations, uploads, processing, complete, receipts,
                    contacts, bills, sweep >>
    /\ UNCHANGED aux

\* The blob name delete_from_uploads asks the upload container to delete.
DeleteTarget(name) == name

\* delete_from_uploads(tenant_id, blob.name): delete_blob of that name in
\* tenant-{tenant_id}-uploads; NotFound or a store failure is swallowed.
\* Then process_receipt_blob returns xero_success.
DeleteFromUploads(w) ==
    /\ pc[w] = "delete"
    /\ \E ok \in BOOLEAN :
         LET target == DeleteTarget(cur[w].name)
             there == target \in BlobNames(uploads[cur[w].tenant])
         IN  /\ ~ok => CanFault
             /\ faults' = IF ok THEN faults ELSE faults + 1
             /\ uploads' =
                  IF ok
                  THEN [ uploads EXCEPT ![cur[w].tenant] = DelBlob(@, target) ]
                  ELSE uploads
             /\ cur' = [ cur EXCEPT
                   ![w].deleted = IF ~ok THEN "error"
                                  ELSE IF there THEN "removed" ELSE "not_found",
                   ![w].result = IF cur[w].xeroOK THEN "True" ELSE "False",
                   ![w].why = "returned" ]
             /\ pc' = [ pc EXCEPT ![w] = "done" ]
    /\ UNCHANGED << now, tenants, integrations, processing, complete, receipts,
                    contacts, bills, sweep >>
    /\ UNCHANGED aux

\* --------------------------------------------- scheduled_processing_function

\* The order in which the tenants query returns its documents.
TenantOrder == << << "acme" >>, << "f3a1", "9c2e" >> >>

\* SELECT * FROM c WHERE c.status = 'active' AND
\* c.settings.processingEnabled = true
ActiveTenants ==
    SelectSeq(TenantOrder,
              LAMBDA t : /\ t \in DOMAIN tenants
                         /\ tenants[t].status = "active"
                         /\ tenants[t].processingEnabled)

\* list_blobs() lists by name: 'r1.pdf' sorts before 'tenant-...'.
RECURSIVE ListBlobs(_)
ListBlobs(names) ==
    IF names = {} THEN << >>
    ELSE LET first == CHOOSE n \in names : \A m \in names : Len(n) <= Len(m)
         IN  << first >> \o ListBlobs(names \ { first })

\* Seeded fault: the list is not cut.
FirstNUncut(seq, n) == seq

\* blobs[:5]
FirstN(seq, n) == SubSeq(seq, 1, IF Len(seq) < n THEN Len(seq) ELSE n)

\* The timer fires: the tenants query.  An exception there ends the run.
SweepStart(w) ==
    /\ pc[w] = "idle"
    /\ \E ok \in BOOLEAN :
         /\ ~ok => CanFault
         /\ faults' = IF ok THEN faults ELSE faults + 1
         /\ IF ok
            THEN /\ sweep' = [ sweep EXCEPT ![w] =
                                 [ NoSweep EXCEPT !.tenants = ActiveTenants,
                                                  !.queried = ActiveTenants ] ]
                 /\ pc' = [ pc EXCEPT ![w] = "sweep_tenant" ]
            ELSE /\ sweep' = sweep
                 /\ pc' = pc
    /\ UNCHANGED << now, stores, cur >>
    /\ UNCHANGED aux

\* for tenant in tenants: list the upload container; an exception there
\* skips the tenant.  After the last tenant the run ends.
SweepTenant(w) ==
    /\ pc[w] = "sweep_tenant"
    /\ IF sweep[w].tenants = << >>
       THEN /\ sweep' = [ sweep EXCEPT ![w] = NoSweep ]
            /\ pc' = [ pc EXCEPT ![w] = "idle" ]
            /\ faults' = faults
       ELSE LET t == Head(sweep[w].tenants)
                some == FirstN(ListBlobs(BlobNames(uploads[t])), SweepCap)
            IN  \E ok \in BOOLEAN :
                  /\ ~ok => CanFault
                  /\ faults' = IF ok THEN faults ELSE faults + 1
                  /\ sweep' = [ sweep EXCEPT
                       ![w].tenants = Tail(@),
                       ![w].tenant = t,
                       ![w].blobs = IF ok THEN some ELSE << >>,
                       ![w].visited = Append(@, t),
                       ![w].selected =
                           IF ok
                           THEN @ \o [ i \in 1..Len(some) |-> << t, some[i] >> ]
                           ELSE @ ]
                  /\ pc' = [ pc EXCEPT ![w] = "sweep_blob" ]
    /\ UNCHANGED << now, stores, cur >>
    /\ UNCHANGED aux

\* Seeded fault: an exception in one blob ends the tenant's batch.
RestAfterFailureAbort(queue) == << >>

\* except Exception as e: logging.error(...) inside the loop over the
\* blobs: the loop goes on with the next blob.
RestAfterFailure(queue) == Tail(queue)

\* for blob in blobs[:5]: download it and call process_receipt_blob with a
\* MockInputStream named '<container>/<blob name>'; an exception in the
\* download skips the blob.  After the last blob, the next tenant.
SweepBlob(w) ==
    /\ pc[w] = "sweep_blob"
    /\ IF sweep[w].blobs = << >>
       THEN /\ pc' = [ pc EXCEPT ![w] = "sweep_tenant" ]
            /\ UNCHANGED << sweep, cur, faults >>
       ELSE LET t == sweep[w].tenant
                k == Head(sweep[w].blobs)
                got == { b \in uploads[t] : b.name = k }
            IN  \E ok \in BOOLEAN :
                  /\ ~ok => CanFault
                  /\ faults' = IF ok THEN faults ELSE faults + 1
                  /\ IF ok /\ got # {}
                     THEN /\ sweep' = [ sweep EXCEPT
                               ![w].blobs = Tail(@),
                               ![w].tried = Append(@, << t, k >>),
                               ![w].passed = Append(@, << t, k >>) ]
                          /\ Enter(w, "sweeper", t,
                                   << ContainerName(t, "uploads") >> \o k,
                                   (CHOOSE b \in got : TRUE).bytes)
                     ELSE /\ sweep' = [ sweep EXCEPT
                               ![w].blobs = RestAfterFailure(@),
                               ![w].tried = Append(@, << t, k >>) ]
                          /\ UNCHANGED << pc, cur >>
    /\ UNCHANGED << now, stores >>
    /\ UNCHANGED aux

\* The invocation is over: the trigger's function returns, the sweeper goes
\* on with its next blob.
Finish(w) ==
    /\ pc[w] = "done"
    /\ pc' = [ pc EXCEPT ![w] = IF cur[w].caller = "sweeper"
                                THEN "sweep_blob" ELSE "idle" ]
    /\ cur' = [ cur EXCEPT ![w] = NoCall ]
    /\ UNCHANGED << now, faults, stores, sweep >>
    /\ UNCHANGED aux

\* ------------------------------------------------------ the specification

\* One step of a running invocation.
Step(w) ==
    \/ GetTenant(w)
    \/ Extract(w)
    \/ StoreReceipt(w)
    \/ MoveToProcessing(w)
    \/ XeroConfig(w)
    \/ XeroToken(w)
    \/ XeroContactSearch(w)
    \/ XeroContactCreate(w)
    \/ XeroInvoice(w)
    \/ XeroUpdateInfo(w)
    \/ XeroError(w)
    \/ MoveToComplete(w)
    \/ UpdateStatus(w)
    \/ UsageRead(w)
    \/ UsageWrite(w)
    \/ DeleteFromUploads(w)
    \/ SweepTenant(w)
    \/ SweepBlob(w)
    \/ Finish(w)

\* Handlers run one at a time: a trigger, a sweep or an upload starts only
\* when no invocation is running.
Next ==
    \/ Tick
    \/ \E t \in TenantIds : \E k \in UploadKeys(t) : \E b \in Bytes :
         Upload(t, k, b)
    \/ \E t \in TenantIds : \E b \in Bytes : EmailAttachment(t, b)
    \/ \E t \in TenantIds : \E b \in uploads[t] :
         AllIdle /\ BlobTrigger("w1", t, b)
    \/ AllIdle /\ SweepStart("w1")
    \/ \E w \in Workers : Step(w)

Spec == Init /\ [][Next]_vars

\* ------------------------------------------------------------ properties

Terminal == { "completed", "failed" }

StatusStep(a, b) ==
    \/ a = b
    \/ a = "uploaded" /\ b \in { "processing", "completed", "failed" }
    \/ a = "processing" /\ b \in Terminal

\* The receipt of the invocation running on worker w, as persisted.
ReceiptOf(w) ==
    { r \in receipts : r.id = cur[w].rid /\ r.tenantId = cur[w].tenant }

\* The source blob of the invocation on worker w is still in the tenant's
\* upload container.
SourceListed(w) ==
    \E x \in uploads[cur[w].tenant] :
        << ContainerName(cur[w].tenant, "uploads") >> \o x.name = cur[w].name

TenantOff(t) == t \notin DOMAIN tenants \/ ~tenants[t].processingEnabled

LedgerCalls == { "contact_search", "contact_create", "invoice_create" }

\* C1: over every step of blob-trigger, sweeper and email invocations a
\* persisted receipt's status only moves forward (uploaded -> processing ->
\* completed | failed); a terminal status is never left or exchanged.
StatusMonotonic ==
    [][ \A r \in receipts : \A r2 \in receipts' :
          (r2.id = r.id /\ r2.tenantId = r.tenantId)
              => StatusStep(r.status, r2.status) ]_vars

\* A receipt reached a terminal status and the same document was ingested
\* again later.
StatusMonotonicWitness ==
    \E r1, r2 \in receipts :
        /\ r1.filename = r2.filename
        /\ r1.status \in Terminal
        /\ r2.createdAt > r1.createdAt

\* C2: in every reachable state a receipt has a non-null xeroInvoiceId
\* exactly when its xeroStatus is "success".
InvoiceIdIffSuccess ==
    \A r \in receipts : (r.xeroInvoiceId # None) <=> (r.xeroStatus = "success")

\* A receipt carries the id of its ledger bill.
InvoiceIdIffSuccessWitness ==
    \E r \in receipts : r.xeroStatus = "success" /\ r.xeroInvoiceId # None

\* C3: whatever sequence of trigger and sweeper runs happens, the ledger
\* holds at most one draft bill per uploaded document.
AtMostOneBillPerDocument ==
    \A b1, b2 \in bills :
        (b1.tenant = b2.tenant /\ b1.doc = b2.doc) => b1 = b2

\* C4: when process_receipt_blob has returned after a delete_from_uploads
\* whose store call did not fail, the source blob is no longer listed in
\* the tenant's upload container.
UploadRemovedAfterIngest ==
    \A w \in Workers :
        (pc[w] = "done" /\ cur[w].deleted \in { "removed", "not_found" })
            => ~SourceListed(w)

\* C5: the delete of the source is issued only after a terminal status has
\* been written to the persisted receipt, store failures included.
DeleteOnlyAfterTerminalStatus ==
    \A w \in Workers :
        cur[w].deleted # "none"
            => \E r \in ReceiptOf(w) : r.status \in Terminal

\* C6: when the ledger sync succeeded (and no store call has failed), the
\* invocation ends with the receipt completed, xeroStatus "success", the
\* bill's id stored, processedAt set, and the bytes in the complete
\* container.
SyncSuccessCompletes ==
    \A w \in Workers :
        (pc[w] = "done" /\ cur[w].sync = "success" /\ faults = 0)
            => /\ \E r \in ReceiptOf(w) :
                    /\ r.status = "completed"
                    /\ r.xeroStatus = "success"
                    /\ r.xeroInvoiceId = Some(cur[w].invoice)
                    /\ r.processedAt # None
               /\ [ name |-> cur[w].name, bytes |-> cur[w].bytes ]
                      \in complete[cur[w].tenant]

\* C7: when the ledger sync of a configured tenant failed for any reason
\* (and no store call has failed), the invocation ends with the receipt
\* failed, xeroStatus "error", a null invoice id and processedAt set.
SyncFailureRecordsError ==
    \A w \in Workers :
        (/\ pc[w] = "done"
         /\ cur[w].sync \in { "no_token", "no_contact", "no_invoice",
                              "exception" }
         /\ faults = 0)
            => \E r \in ReceiptOf(w) :
                   /\ r.status = "failed"
                   /\ r.xeroStatus = "error"
                   /\ r.xeroInvoiceId = None
                   /\ r.processedAt # None

\* C8: for an enabled tenant without a ledger integration (and no store
\* call failed) the invocation ends with the receipt failed, xeroStatus
\* unset, a null invoice id, and made no token lookup and no ledger call.
NotConfiguredEndsFailed ==
    \A w \in Workers :
        (pc[w] = "done" /\ cur[w].sync = "not_configured" /\ faults = 0)
            => /\ \E r \in ReceiptOf(w) :
                    /\ r.status = "failed"
                    /\ r.xeroStatus = "None"
                    /\ r.xeroInvoiceId = None
               /\ cur[w].calls \cap (LedgerCalls \cup { "token" }) = {}

\* C9: an invocation for a tenant that is missing or has processing
\* disabled changes nothing (receipts, blobs of the three containers,
\* usage, ledger), calls neither the extractor nor the ledger, and returns
\* failure.
DisabledTenantChangesNothing ==
    \A w \in Workers :
        (cur[w].snap # None /\ TenantOff(cur[w].tenant))
            => /\ Snapshot = cur[w].snap[1]
               /\ cur[w].calls = {}
               /\ pc[w] = "done" => cur[w].result = "False"

\* An invocation for a switched-off tenant has returned, the upload
\* being there.
DisabledTenantWitness ==
    \E w \in Workers :
        /\ pc[w] = "done"
        /\ TenantOff(cur[w].tenant)
        /\ cur[w].result = "False"
        /\ SourceListed(w)

\* C10: when the extraction fails the invocation returns failure, no
\* receipt is persisted, the source stays in the upload container, nothing
\* is copied, usage is unchanged and the ledger is not called.
ExtractFailureChangesNothing ==
    \A w \in Workers :
        cur[w].extracted = "failed"
            => /\ Snapshot = cur[w].snap[1]
               /\ SourceListed(w)
               /\ cur[w].rid = None
               /\ cur[w].calls = { "extract" }
               /\ cur[w].result = "False"

\* An invocation whose extraction failed has returned.
ExtractFailureWitness ==
    \E w \in Workers :
        /\ pc[w] = "done"
        /\ cur[w].extracted = "failed"
        /\ cur[w].result = "False"

\* C11: when the ledger already holds a contact whose name equals the
\* merchant name case-insensitively, create_or_get_xero_contact returns
\* that contact's id and issues no contact-create request, whatever the
\* search request's outcome.
ContactResolutionIdempotent ==
    \A w \in Workers :
        cur[w].existing # 0
            => /\ pc[w] # "contact_create"
               /\ "contact_create" \notin cur[w].calls
               /\ cur[w].sync # "no_contact"
               /\ cur[w].contact \in { 0, cur[w].existing }

\* ------------------------------------ extracted fields and the bill's lines

\* Totals of the analysed document are 0..MaxCents cents.
MaxCents == 12
\* The Items field of the analysed document has at most MaxItems entries.
MaxItems == 2

\* Amounts are counted in tenths of a cent, so that total_amount * 0.1 is
\* an integer for a total of whole cents (the float error of 0.1 is left
\* out).
Cents(c) == 10 * c

\* An entry of the Items field: Description, Quantity and TotalPrice may
\* each be absent; a TotalPrice may be 0.
RawItems ==
    [ description : { None, Some("Milk") },
      quantity : { None, Some(2) },
      price : { None, Some(Cents(0)), Some(Cents(3)) } ]

RawItemLists == UNION { [ 1..n -> RawItems ] : n \in 0..MaxItems }

\* item_data: quantity defaults to 1, unit_amount is the TotalPrice.
item_data(raw) ==
    [ description |-> raw.description[1],
      quantity |-> IF raw.quantity # None THEN raw.quantity[1] ELSE 1,
      unit_amount |-> raw.price[1] ]

\* if item_data.get("description") and item_data.get("unit_amount")
ItemKept(raw) ==
    raw.description # None /\ raw.price # None /\ raw.price[1] # 0

\* the items list extract_receipt_data_from_blob builds
extracted_items(raw_items) ==
    LET kept == SelectSeq(raw_items, ItemKept)
    IN  [ i \in 1..Len(kept) |-> item_data(kept[i]) ]

\* tax_amount = total_amount * 0.1 if total_amount > 0 else 0
tax_amount(total_amount) ==
    IF total_amount > 0 THEN total_amount \div 10 ELSE 0

\* The dictionary extract_receipt_data_from_blob returns.
receipt_data_of(total_amount, raw_items) ==
    [ merchant |-> "Acme", total |-> total_amount,
      tax |-> tax_amount(total_amount),
      items |-> extracted_items(raw_items) ]

\* "TaxType": "INPUT" if receipt_data["tax"] > 0 else "NONE"
TaxType(rd) == IF rd.tax > 0 THEN "INPUT" ELSE "NONE"

\* Seeded fault: no fallback line, a receipt without items gives no line.
line_items_without_fallback(rd) ==
    [ i \in 1..Len(rd.items) |->
        [ Description |-> rd.items[i].description,
          Quantity |-> rd.items[i].quantity,
          UnitAmount |-> rd.items[i].unit_amount,
          AccountCode |-> "310", TaxType |-> TaxType(rd) ] ]

\* create_xero_invoice, "Prepare line items"
line_items(rd) ==
    IF rd.items # << >>
    THEN [ i \in 1..Len(rd.items) |->
             [ Description |-> rd.items[i].description,
               Quantity |-> rd.items[i].quantity,
               UnitAmount |-> rd.items[i].unit_amount,
               AccountCode |-> "310", TaxType |-> TaxType(rd) ] ]
    ELSE << [ Description |-> "merchant - date", Quantity |-> 1,
              UnitAmount |-> rd.total, AccountCode |-> "310",
              TaxType |-> TaxType(rd) ] >>

\* The document-understanding service has analysed a document.
CalcInit ==
    /\ IngestIdle
    /\ \E c \in 0..MaxCents : \E its \in RawItemLists :
         calc = [ stage |-> "analysed", total_amount |-> Cents(c),
                  raw_items |-> its ]
    /\ limiter = NewLimiter
    /\ vault = << >>
    /\ tok = NoTok
    /\ autopay = NoAutoPay
    /\ payments = {}
    /\ audit = {}
    /\ mail = NoMail
    /\ wire = NoWire

\* extract_receipt_data_from_blob returns the fields.
CalcExtract ==
    /\ calc.stage = "analysed"
    /\ calc' = [ stage |-> "extracted",
                 raw_items |-> calc.raw_items,
                 receipt_data |-> receipt_data_of(calc.total_amount,
                                                  calc.raw_items) ]
    /\ UNCHANGED << ingest, limiter, vault, tok, autopay, payments, audit,
                    mail, wire >>

\* create_xero_invoice builds the request it posts.
CalcInvoice ==
    /\ calc.stage = "extracted"
    /\ calc' = [ stage |-> "posted",
                 raw_items |-> calc.raw_items,
                 receipt_data |-> calc.receipt_data,
                 LineItems |-> line_items(calc.receipt_data) ]
    /\ UNCHANGED << ingest, limiter, vault, tok, autopay, payments, audit,
                    mail, wire >>

CalcNext == CalcExtract \/ CalcInvoice

CalcSpec == CalcInit /\ [][CalcNext]_vars

\* C12: every invoice request carries a non-empty line list: one line per
\* extracted item, in order, with the item's quantity and unit amount; or,
\* without items, one line of quantity 1 whose unit amount is the total.
LineItemsFaithful ==
    calc.stage = "posted"
        => LET its == calc.receipt_data.items
               ls == calc.LineItems
           IN  /\ Len(ls) >= 1
               /\ Len(its) >= 1 =>
                    /\ Len(ls) = Len(its)
                    /\ \A i \in 1..Len(its) :
                         /\ ls[i].Quantity = its[i].quantity
                         /\ ls[i].UnitAmount = its[i].unit_amount
               /\ Len(its) = 0 =>
                    /\ Len(ls) = 1
                    /\ ls[1].Quantity = 1
                    /\ ls[1].UnitAmount = calc.receipt_data.total

\* A request was built for a receipt whose entries were all dropped and
\* whose total is positive: the fallback line.
LineItemsFallbackWitness ==
    /\ calc.stage = "posted"
    /\ calc.raw_items # << >>
    /\ calc.receipt_data.items = << >>
    /\ calc.receipt_data.total > 0
    /\ Len(calc.LineItems) = 1

\* C13: the tax of the receipt is total x 0.10 rounded to whole cents (a
\* multiple of 10 tenths of a cent, at most half a cent from the exact
\* tenth), and 0 for a total of 0.
TaxIsRoundedTenth ==
    calc.stage \in { "extracted", "posted" }
        => LET total == calc.receipt_data.total
               tax == calc.receipt_data.tax
           IN  /\ tax % 10 = 0
               /\ 10 * tax - total <= 50
               /\ total - 10 * tax <= 50
               /\ total = 0 => tax = 0

\* ------------------------------------------------------- XeroRateLimiter

\* The limiter's clock runs to MaxClock seconds.
MaxClock == 75
\* self.max_requests_per_minute: 50 in the source; the limiter's code is
\* the same for every limit, and the model runs it with a small one.
max_requests_per_minute == 3

\* Idle time between two ledger calls, in seconds.
Gaps == { 5, 30 }

\* HTTP status of the ledger's answer to the request that follows the wait.
Statuses == { 200, 429, 500 }

\* self.request_times = [t for t in self.request_times if now - t < 60]
Prune(times, n) == SelectSeq(times, LAMBDA t : n - t < 60)

\* Seeded fault: the comparison is strict.
LimitExceeded(times) == Len(times) > max_requests_per_minute

\* elif len(self.request_times) >= self.max_requests_per_minute
LimitReached(times) == Len(times) >= max_requests_per_minute

\* if self.last_rate_limit_time and now - self.last_rate_limit_time < 120
InCooldown(lim, n) ==
    /\ lim.last_rate_limit_time # None
    /\ lim.last_rate_limit_time[1] # 0
    /\ n - lim.last_rate_limit_time[1] < 120

\* The branch wait_if_needed takes for the pruned list.
Branch(lim, times, n) ==
    IF InCooldown(lim, n) THEN "cooldown"
    ELSE IF LimitReached(times) THEN "limit"
    ELSE "baseline"

\* time.sleep(...) of the branch, in whole seconds: 2 + uniform(0.5, 1.5)
\* is 3, 65 - (now - request_times[0]) when positive, uniform(0.2, 0.5)
\* is less than a second.
SleepOf(branch, times, n) ==
    CASE branch = "cooldown" -> 3
      [] branch = "limit" ->
            IF 65 - (n - times[1]) > 0 THEN 65 - (n - times[1]) ELSE 0
      [] OTHER -> 0

\* What the callers of wait_if_needed do with the response's status: they
\* test response.ok only; last_rate_limit_time is assigned in __init__ and
\* nowhere else.
last_rate_limit_time_after(lim, status, at) == lim.last_rate_limit_time

\* A ledger call through the limiter: rate_limiter.wait_if_needed(), then
\* the request, answered with a status.
LedgerCall(status) ==
    LET n == now
        times == Prune(limiter.request_times, n)
        branch == Branch(limiter, times, n)
        sent == n + SleepOf(branch, times, n)
        watched == /\ limiter.rejected_at # None
                   /\ n - limiter.rejected_at[1] < 120
    IN  /\ sent <= MaxClock
        /\ now' = sent
        /\ limiter' =
             [ request_times |-> Append(times, n),
               last_rate_limit_time |->
                   last_rate_limit_time_after(limiter, status, sent),
               branch |-> branch,
               rejected_at |-> IF status = 429 THEN Some(sent)
                               ELSE limiter.rejected_at,
               after_rejection |->
                   IF watched THEN limiter.after_rejection \cup { branch }
                   ELSE limiter.after_rejection ]
        /\ UNCHANGED << faults, stores, pc, cur, sweep, calc, vault, tok,
                        autopay, payments, audit, mail, wire >>

\* Time passes between two calls.
LimiterIdle(g) ==
    /\ now + g <= MaxClock
    /\ now' = now + g
    /\ UNCHANGED << faults, stores, pc, cur, sweep, aux >>

LimiterInit == IngestIdle /\ AuxIdle

LimiterNext ==
    \/ \E status \in Statuses : LedgerCall(status)
    \/ \E g \in Gaps : LimiterIdle(g)

LimiterSpec == LimiterInit /\ [][LimiterNext]_vars

\* The recorded timestamps less than 60 seconds old.
RecentCalls ==
    { i \in 1..Len(limiter.request_times) :
        now - limiter.request_times[i] < 60 }

CooldownAfterRejection == limiter.after_rejection \subseteq { "cooldown" }

\* ------------------------------------------------- get_xero_access_token

\* The token clock runs to MaxTokenClock seconds, in steps of TokenStep.
MaxTokenClock == 900
\* A behaviour refreshes the token at most MaxRefreshes times.
MaxRefreshes == 2

TokenStep == 150

\* new_token["expires_in"] of the token endpoint's answer, in seconds.
expires_in == 600

\* The secret xero-token-{tenant_id} as it may be stored before the first
\* call: absent, or a bundle whose expires_at and refresh_token may each be
\* missing. Access tokens are numbered; the stored one is number 0.
StoredBundles ==
    [ access_token : { 0 },
      expires_at : { None, Some(600) },
      refresh_token : { None, Some(0) } ]

\* keyvault_client.get_secret + json.loads: it raises when the secret is
\* absent, and may raise (service error) when it is present.
ReadOutcomes(secret) == IF secret = None THEN { "raises" } ELSE { "ok", "raises" }

\* Answers of the token endpoint to the refresh request, and of
\* keyvault_client.set_secret after an accepted refresh.
RefreshOutcomes == { "ok", "rejected", "raises", "store_raises" }

\* Seeded fault: the safety margin of 300 seconds is left out.
TokenNotExpired(n, token_data) ==
    n < (IF token_data.expires_at # None THEN token_data.expires_at[1] ELSE 0)

\* datetime.utcnow().timestamp() < token_data.get("expires_at", 0) - 300
TokenStillValid(n, token_data) ==
    n < (IF token_data.expires_at # None THEN token_data.expires_at[1] ELSE 0)
            - 300

\* Seeded fault: expires_at is the time of the refresh, expires_in is not
\* added.
refresh_xero_token_no_lifetime(n, token_data, outcome) ==
    LET new_token ==
            [ access_token |-> token_data.access_token + 1,
              expires_at |-> Some(n),
              refresh_token |-> Some(token_data.refresh_token[1] + 1) ]
    IN  CASE outcome = "ok" ->
                [ kind |-> "value", value |-> Some(new_token.access_token),
                  secret |-> Some(new_token), requests |-> 1 ]
          [] outcome = "rejected" ->
                [ kind |-> "value", value |-> None,
                  secret |-> Some(token_data), requests |-> 1 ]
          [] OTHER ->
                [ kind |-> "exception", value |-> None,
                  secret |-> Some(token_data), requests |-> 1 ]

\* refresh_xero_token: the value it returns or the exception it lets
\* through (its try block has no handler), with the secret it leaves and
\* the number of requests sent to the token endpoint.
refresh_xero_token(n, token_data, outcome) ==
    LET new_token ==
            [ access_token |-> token_data.access_token + 1,
              expires_at |-> Some(n + expires_in),
              refresh_token |-> Some(token_data.refresh_token[1] + 1) ]
    IN  CASE outcome = "ok" ->
                [ kind |-> "value", value |-> Some(new_token.access_token),
                  secret |-> Some(new_token), requests |-> 1 ]
          [] outcome = "rejected" ->
                [ kind |-> "value", value |-> None,
                  secret |-> Some(token_data), requests |-> 1 ]
          [] OTHER ->
                [ kind |-> "exception", value |-> None,
                  secret |-> Some(token_data), requests |-> 1 ]

\* The body of get_xero_access_token's outer try block.
TokenBody(n, secret, read, outcome) ==
    IF read = "raises"
    THEN \* token_data is unbound at `if "refresh_token" in token_data`
         [ kind |-> "exception", value |-> None, secret |-> secret,
           requests |-> 0 ]
    ELSE LET token_data == secret[1]
         IN  IF TokenStillValid(n, token_data)
             THEN [ kind |-> "value",
                    value |-> Some(token_data.access_token),
                    secret |-> secret, requests |-> 0 ]
             ELSE IF token_data.refresh_token # None
             THEN refresh_xero_token(n, token_data, outcome)
             ELSE [ kind |-> "value", value |-> None, secret |-> secret,
                    requests |-> 0 ]

\* Seeded fault: get_xero_access_token without its outer handler.
OuterExceptAbsent(r) == r

\* except Exception as e: logging.error(...); return None
OuterExcept(r) ==
    IF r.kind = "exception"
    THEN [ r EXCEPT !.kind = "value", !.value = None ]
    ELSE r

\* if not access_token: return (process_to_xero, process_auto_payments);
\* an exception out of the call ends the caller's try block as well.
CallerProceeds(r) == r.kind = "value" /\ r.value # None

\* One call of get_xero_access_token by process_to_xero or
\* process_auto_payments, and what the caller does with the result.
GetToken(read, outcome) ==
    LET r == OuterExcept(TokenBody(now, vault, read, outcome))
        refreshes == /\ read = "ok"
                     /\ ~TokenStillValid(now, vault[1])
                     /\ vault[1].refresh_token # None
    IN  /\ read \in ReadOutcomes(vault)
        /\ refreshes /\ outcome = "ok"
               => vault[1].access_token < MaxRefreshes
        /\ ~refreshes => outcome = "ok"
        /\ vault' = r.secret
        /\ tok' = [ stage |-> "returned", at |-> now, before |-> vault,
                    read |-> read,
                    outcome |-> IF refreshes THEN outcome ELSE "none",
                    raised |-> r.kind = "exception",
                    result |-> r.value, requests |-> r.requests,
                    ledger_call |-> CallerProceeds(r) ]
        /\ UNCHANGED << ingest, calc, limiter, autopay, payments, audit,
                        mail, wire >>

\* Time passes between two calls.
TokenTick ==
    /\ now + TokenStep <= MaxTokenClock
    /\ now' = now + TokenStep
    /\ UNCHANGED << faults, stores, pc, cur, sweep, aux >>

TokenInit ==
    /\ IngestIdle
    /\ vault \in { None } \cup { Some(b) : b \in StoredBundles }
    /\ tok = NoTok
    /\ calc = NoCalc
    /\ limiter = NewLimiter
    /\ autopay = NoAutoPay
    /\ payments = {}
    /\ audit = {}
    /\ mail = NoMail
    /\ wire = NoWire

TokenNext ==
    \/ \E read \in { "ok", "raises" } : \E outcome \in RefreshOutcomes :
         GetToken(read, outcome)
    \/ TokenTick

TokenSpec == TokenInit /\ [][TokenNext]_vars

\* The bundle the last call read, and whether it satisfied
\* now < expires_at - 300 at the time of the call.
BundleRead == tok.before[1]

BundleFresh ==
    /\ BundleRead.expires_at # None
    /\ tok.at < BundleRead.expires_at[1] - 300

\* C16: when the bundle read satisfies now < expires_at - 300 the call
\* returns the stored access_token, sends no request to the token endpoint
\* and leaves the secret unchanged; when it does not, the stored access
\* token is not what the call returns.
CachedTokenIffFresh ==
    tok.stage = "returned" /\ tok.read = "ok"
        => /\ BundleFresh
               => /\ tok.result = Some(BundleRead.access_token)
                  /\ tok.requests = 0
                  /\ vault = tok.before
           /\ ~BundleFresh
               => tok.result # Some(BundleRead.access_token)

\* A call returned the cached token, and the clock has since come within
\* 300 seconds of its expiry.
CachedTokenWitness ==
    /\ tok.stage = "returned"
    /\ tok.read = "ok"
    /\ BundleFresh
    /\ tok.result = Some(BundleRead.access_token)
    /\ now >= BundleRead.expires_at[1] - 300

\* The cached token was not usable and there was nothing to refresh with,
\* or the refresh request was rejected or failed.
NoTokenObtainable ==
    /\ tok.stage = "returned"
    /\ \/ tok.read = "raises"
       \/ /\ ~BundleFresh
          /\ \/ BundleRead.refresh_token = None
             \/ tok.outcome \in { "rejected", "raises" }

\* C17: in that case the call returns None, raises nothing, leaves the
\* stored bundle as it was, and the caller makes no ledger call.
NoTokenMeansNoLedgerCall ==
    NoTokenObtainable
        => /\ tok.result = None
           /\ ~tok.raised
           /\ vault = tok.before
           /\ ~tok.ledger_call

\* The token endpoint did not answer the refresh request of an expired
\* bundle.
RefreshFailedWitness ==
    /\ tok.stage = "returned"
    /\ tok.read = "ok"
    /\ ~BundleFresh
    /\ tok.outcome = "raises"
    /\ tok.result = None

\* ------------------------------------------------ auto_pay_bills_function

\* What a tenant's ledger answers to the query for authorised bills: the
\* AmountDue of each bill, in cents, in due-date order.
BillLists == { << >>, << 2500 >>, << 0, 2500 >>, << 2500, 2500 >> }

\* A tenant as the auto-pay run sees it: selected by the tenants query or
\* not, its integration record and token ("none", "no_token", "ok"), its
\* settings.bankAccountId, and the bills of its ledger.
AutoPayConfigs ==
    [ selected : BOOLEAN,
      credentials : { "none", "no_token", "ok" },
      bankAccountId : { None, Some("bank-1") },
      amounts : BillLists ]

\* The invoices of the tenant's ledger.
LedgerBills(t, cfg) ==
    [ i \in 1..Len(cfg.amounts) |->
        [ InvoiceID |-> << t, i >>, AmountDue |-> cfg.amounts[i],
          ContactID |-> "contact-1" ] ]

\* get_awaiting_payment_bills: the invoices with AmountDue > 0 of an ok
\* response, no bill otherwise.
get_awaiting_payment_bills(t, cfg, ok) ==
    IF ok THEN SelectSeq(LedgerBills(t, cfg), LAMBDA inv : inv.AmountDue > 0)
    ELSE << >>

\* "SELECT * FROM c WHERE c.status = 'active' AND
\*  c.settings.autoPayEnabled = true"
AutoPayTenants(config) ==
    SelectSeq(TenantOrder, LAMBDA t : config[t].selected)

\* The names the module imports: uuid is not among them, str(uuid.uuid4())
\* raises NameError.
UuidImported == FALSE

\* The timer fires: the tenants query.
AutoPayStart ==
    /\ autopay.stage = "configured"
    /\ autopay' = [ autopay EXCEPT !.stage = "running",
                                   !.queue = AutoPayTenants(autopay.config) ]
    /\ UNCHANGED << ingest, calc, limiter, vault, tok, payments, audit,
                    mail, wire >>

\* process_auto_payments(tenant_id) up to the list of bills: it returns
\* without a ledger call when the integration, the token or the bank
\* account is missing.
AutoPayTenant(fetch_ok) ==
    /\ autopay.stage = "running"
    /\ autopay.bills = << >>
    /\ autopay.queue # << >>
    /\ LET t == Head(autopay.queue)
           cfg == autopay.config[t]
           ready == cfg.credentials = "ok" /\ cfg.bankAccountId # None
       IN  /\ ~ready => fetch_ok
           /\ autopay' =
                [ autopay EXCEPT
                    !.queue = Tail(@),
                    !.visited = @ \cup { t },
                    !.current = Some(t),
                    !.fetch_failed = @ \/ (ready /\ ~fetch_ok),
                    !.bills = IF ready
                              THEN get_awaiting_payment_bills(t, cfg,
                                                              fetch_ok)
                              ELSE << >>,
                    !.listed = IF ready
                               THEN @ \o get_awaiting_payment_bills(t, cfg,
                                                                    fetch_ok)
                               ELSE @ ]
    /\ UNCHANGED << ingest, calc, limiter, vault, tok, payments, audit,
                    mail, wire >>

\* Seeded fault: an exception in one bill ends the loop over the bills.
AfterPaymentErrorStop(queue) == << >>

\* except Exception as e: logging.error(...) inside `for bill in bills`:
\* the loop goes on with the next bill.
AfterPaymentError(queue) == Tail(queue)

\* create_automatic_payment(access_token, xero_tenant_id, bill,
\* bank_account_id): PUT /Payments, then the audit record.  A rejected
\* payment raises; so does the construction of the audit record when uuid
\* is not defined.  The caller logs the exception and goes on.
create_automatic_payment(accepted, stored) ==
    /\ autopay.stage = "running"
    /\ autopay.bills # << >>
    /\ LET t == autopay.current[1]
           bill == Head(autopay.bills)
           payment == [ tenant |-> t, InvoiceID |-> bill.InvoiceID,
                        AccountID |-> autopay.config[t].bankAccountId[1],
                        Amount |-> bill.AmountDue ]
           audit_log == [ id |-> Cardinality(audit) + 1,
                          tenantId |-> bill.ContactID,
                          action |-> "auto_payment_created",
                          invoiceId |-> bill.InvoiceID,
                          amount |-> bill.AmountDue ]
       IN  /\ payments' = IF accepted THEN payments \cup { payment }
                          ELSE payments
           /\ audit' = IF accepted /\ UuidImported /\ stored
                       THEN audit \cup { audit_log }
                       ELSE audit
           /\ autopay' =
                [ autopay EXCEPT
                    !.bills = IF accepted /\ UuidImported THEN Tail(@)
                              ELSE AfterPaymentError(@),
                    !.requests = Append(@, [ request |-> payment,
                                             accepted |-> accepted ]),
                    !.rejected = IF accepted THEN @
                                 ELSE @ \cup { bill.InvoiceID },
                    !.raised = @ \cup (IF accepted /\ UuidImported THEN {}
                                       ELSE { bill.InvoiceID }) ]
    /\ UNCHANGED << ingest, calc, limiter, vault, tok, mail, wire >>

\* The loop over the tenants is over.
AutoPayFinish ==
    /\ autopay.stage = "running"
    /\ autopay.bills = << >>
    /\ autopay.queue = << >>
    /\ autopay' = [ autopay EXCEPT !.stage = "done", !.current = None ]
    /\ UNCHANGED << ingest, calc, limiter, vault, tok, payments, audit,
                    mail, wire >>

AutoPayInit ==
    /\ IngestIdle
    /\ \E config \in [ TenantIds -> AutoPayConfigs ] :
         autopay = [ stage |-> "configured", config |-> config,
                     queue |-> << >>, visited |-> {}, current |-> None,
                     bills |-> << >>, fetch_failed |-> FALSE,
                     rejected |-> {}, raised |-> {},
                     listed |-> << >>, requests |-> << >> ]
    /\ payments = {}
    /\ audit = {}
    /\ calc = NoCalc
    /\ limiter = NewLimiter
    /\ vault = << >>
    /\ tok = NoTok
    /\ mail = NoMail
    /\ wire = NoWire

AutoPayNext ==
    \/ AutoPayStart
    \/ \E fetch_ok \in BOOLEAN : AutoPayTenant(fetch_ok)
    \/ \E accepted, stored \in BOOLEAN :
         create_automatic_payment(accepted, stored)
    \/ AutoPayFinish

AutoPaySpec == AutoPayInit /\ [][AutoPayNext]_vars

\* The AuditEntries with action auto_payment_created of a bill.
AuditEntriesOf(invoice) ==
    { a \in audit : a.action = "auto_payment_created"
                    /\ a.invoiceId = invoice }

\* C18: every payment the ledger accepted has exactly one AuditEntry
\* with action auto_payment_created, and a bill whose payment request
\* failed has none.
OneAuditEntryPerPayment ==
    autopay.stage \in { "running", "done" }
        => /\ \A p \in payments :
                Cardinality(AuditEntriesOf(p.InvoiceID)) = 1
           /\ \A invoice \in autopay.rejected :
                AuditEntriesOf(invoice) = {}

TenantA == << "acme" >>
TenantB == << "f3a1", "9c2e" >>

\* The run of the scenario: A and B are both selected, A has no bank
\* account, B is fully configured and has one awaiting bill of positive
\* amount due; the ledger answered B's requests.
TwoTenantRunDone ==
    /\ autopay.stage = "done"
    /\ autopay.config[TenantA].selected
    /\ autopay.config[TenantA].bankAccountId = None
    /\ autopay.config[TenantB].selected
    /\ autopay.config[TenantB].credentials = "ok"
    /\ autopay.config[TenantB].bankAccountId # None
    /\ autopay.config[TenantB].amounts = << 2500 >>
    /\ ~autopay.fetch_failed
    /\ autopay.rejected = {}

\* C19: that run ends with exactly one payment and exactly one
\* AuditEntry, both for B, and none for A.
UnconfiguredTenantDoesNotBlock ==
    TwoTenantRunDone
        => /\ TenantB \in autopay.visited
           /\ Cardinality(payments) = 1
           /\ \A p \in payments : p.tenant = TenantB
           /\ Cardinality(audit) = 1
           /\ \A a \in audit : a.invoiceId[1] = TenantB

\* ------------------------------------------- email webhook: main(req)

\* The webhook receives at most MaxDeliveries requests.
MaxDeliveries == 4

\* The emails the provider may deliver, each with one supported attachment
\* r1.pdf: two from a sender authorised for a tenant, with different
\* Message-IDs, and one from an address no tenant knows.
Emails ==
    { [ message_id |-> "m1", from_email |-> "ann@acme.test",
        tenant |-> Some(<< "acme" >>) ],
      [ message_id |-> "m2", from_email |-> "ann@acme.test",
        tenant |-> Some(<< "acme" >>) ],
      [ message_id |-> "m3", from_email |-> "eve@else.test",
        tenant |-> None ] }

\* hashlib.sha256(f"{message_id}{from_email}".encode()).hexdigest()
email_hash(e) == << e.message_id, e.from_email >>

\* self.processed_emails of the processor main(req) has just built with
\* EmailReceiptProcessor().
processed_emails == {}

\* self._get_tenant_by_email(to_email, from_email)
tenant_by_email(e) == e.tenant

\* main(req): a new EmailReceiptProcessor, then process_email: the
\* duplicate test against the processor's own set, the tenant lookup, and
\* for the attachment upload_blob(overwrite=True) followed by
\* _create_receipt_record, whose exceptions are swallowed.
main(e) ==
    LET h == email_hash(e)
        skipped == h \in processed_emails \/ tenant_by_email(e) = None
        t == tenant_by_email(e)[1]
        name == << EmailFileName(now) >>
        doc == email_receipt_document(t, name, now)
        again == h \in mail.marked
    IN  /\ mail.deliveries < MaxDeliveries
        /\ \E up_ok, rec_ok \in BOOLEAN :
             /\ skipped => up_ok /\ rec_ok
             /\ ~up_ok => rec_ok
             /\ ~(up_ok /\ rec_ok) => CanFault
             /\ faults' = IF up_ok /\ rec_ok THEN faults ELSE faults + 1
             /\ LET uploaded == ~skipped /\ up_ok
                    recorded == /\ uploaded
                                /\ rec_ok
                                /\ ~\E r \in receipts :
                                      r.id = doc.id /\ r.tenantId = doc.tenantId
                IN  /\ uploads' =
                         IF uploaded
                         THEN [ uploads EXCEPT ![t] = PutBlob(@, name, "B1") ]
                         ELSE uploads
                    /\ receipts' = IF recorded THEN receipts \cup { doc }
                                   ELSE receipts
                    /\ mail' =
                         [ deliveries |-> mail.deliveries + 1,
                           marked |-> IF uploaded /\ recorded
                                      THEN mail.marked \cup { h }
                                      ELSE mail.marked,
                           redelivery_uploads |->
                               mail.redelivery_uploads
                                   + (IF again /\ uploaded THEN 1 ELSE 0),
                           redelivery_records |->
                               mail.redelivery_records
                                   + (IF again /\ recorded THEN 1 ELSE 0) ]
        /\ UNCHANGED << now, tenants, integrations, processing, complete,
                        contacts, bills, pc, cur, sweep, calc, limiter,
                        vault, tok, autopay, payments, audit, wire >>

\* Time passes between two requests.
MailTick ==
    /\ now < MaxTime
    /\ now' = now + 1
    /\ UNCHANGED << faults, stores, pc, cur, sweep, aux >>

MailInit == IngestIdle /\ AuxIdle

MailNext ==
    \/ \E e \in Emails : main(e)
    \/ MailTick

MailSpec == MailInit /\ [][MailNext]_vars

\* C20: an email (same Message-ID and sender) delivered again causes no
\* upload and no Receipt record: only its first delivery does.
SecondDeliveryDoesNothing ==
    /\ mail.redelivery_uploads = 0
    /\ mail.redelivery_records = 0

\* -------------------------------- process_receipt_blob: absorbed failures

\* C26: once the extraction has succeeded, an invocation that has returned
\* has attempted the usage update and the cleanup of the upload, and
\* unless the sync succeeded its receipt is persisted with status failed.
BookkeepingAfterExtraction ==
    \A w \in Workers :
        (pc[w] = "done" /\ cur[w].extracted = "ok")
            => /\ cur[w].deleted # "none"
               /\ cur[w].sync # "success"
                    => \E r \in ReceiptOf(w) : r.status = "failed"

\* C27: whenever an invocation has issued a ledger call, the document's
\* bytes are in the tenant's processing container.
LedgerCallAfterProcessingCopy ==
    \A w \in Workers :
        cur[w].calls \cap LedgerCalls # {}
            => [ name |-> cur[w].name, bytes |-> cur[w].bytes ]
                   \in processing[cur[w].tenant]

\* ----------------------------------- the requests a ledger call sends out

\* get_awaiting_payment_bills returns at most MaxWireBills bills.
MaxWireBills == 3

LedgerRequests ==
    { "contact_search", "contact_create", "invoice_create", "bills_query",
      "payment_create" }

\* get_xero_access_token: the cached token, no usable bundle, or one
\* request to the token endpoint that is accepted or not.
TokenOutcomes == { "cached", "none", "refreshed", "refresh_failed" }

token_events(outcome) ==
    IF outcome \in { "refreshed", "refresh_failed" }
    THEN << "token_refresh" >> ELSE << >>

\* create_or_get_xero_contact: rate_limiter.wait_if_needed(), then
\* requests.get(search_url, ...)
contact_search_events == << "wait", "contact_search" >>

\* Seeded fault: the create request is sent without a wait of its own.
contact_create_unpaced == << "contact_create" >>

\* create_or_get_xero_contact: rate_limiter.wait_if_needed(), then
\* requests.put(search_url, ...)
contact_create_events == << "wait", "contact_create" >>

\* create_xero_invoice: rate_limiter.wait_if_needed(), then
\* requests.post(url, ...); an exception while the request is built (no
\* date extracted) comes after the wait and before the request.
invoice_events(resp) ==
    IF resp = "raises_before" THEN << "wait" >>
    ELSE << "wait", "invoice_create" >>

\* get_awaiting_payment_bills: rate_limiter.wait_if_needed(), then
\* requests.get(url, ...)
bills_query_events == << "wait", "bills_query" >>

\* create_automatic_payment: rate_limiter.wait_if_needed(), then
\* requests.put(url, ...)
payment_events == << "wait", "payment_create" >>

\* Seeded fault: a search that was not answered with success is repeated.
AfterSearchRetrying(resp) ==
    CASE resp = "hit" -> "invoice"
      [] resp = "raises" -> "returned"
      [] resp = "not_ok" -> "contact_search"
      [] OTHER -> "contact_create"

\* Where create_or_get_xero_contact goes after the search: it returns the
\* exact match of an ok response, returns None from its handler when the
\* request raised, and creates the contact otherwise.
AfterSearch(resp) ==
    CASE resp = "hit" -> "invoice"
      [] resp = "raises" -> "returned"
      [] OTHER -> "contact_create"

Sent(stage, events, answer) ==
    [ wire EXCEPT !.stage = stage, !.log = @ \o events,
                  !.answers = Append(@, answer) ]

\* process_to_xero or process_auto_payments is called with an integration
\* record.
WireStart(kind) ==
    /\ wire.stage \in { "idle", "returned" }
    /\ wire' = [ stage |-> "token", kind |-> kind, log |-> << >>,
                 answers |-> << >>, bills |-> 0 ]
    /\ UNCHANGED << ingest, calc, limiter, vault, tok, autopay, payments,
                    audit, mail >>

\* access_token = get_xero_access_token(...); if not access_token: return
WireToken(outcome) ==
    /\ wire.stage = "token"
    /\ wire' = Sent(IF outcome \in { "none", "refresh_failed" } THEN "returned"
                    ELSE IF wire.kind = "sync" THEN "contact_search"
                    ELSE "bills",
                    token_events(outcome), outcome)
    /\ UNCHANGED << ingest, calc, limiter, vault, tok, autopay, payments,
                    audit, mail >>

\* create_or_get_xero_contact, up to the answer of the search.
WireContactSearch(resp) ==
    /\ wire.stage = "contact_search"
    /\ wire' = Sent(AfterSearch(resp), contact_search_events, resp)
    /\ UNCHANGED << ingest, calc, limiter, vault, tok, autopay, payments,
                    audit, mail >>

\* create_or_get_xero_contact, the create; without a contact id
\* process_to_xero returns.
WireContactCreate(resp) ==
    /\ wire.stage = "contact_create"
    /\ wire' = Sent(IF resp = "ok" THEN "invoice" ELSE "returned",
                    contact_create_events, resp)
    /\ UNCHANGED << ingest, calc, limiter, vault, tok, autopay, payments,
                    audit, mail >>

\* create_xero_invoice; process_to_xero returns after it.
WireInvoice(resp) ==
    /\ wire.stage = "invoice"
    /\ wire' = Sent("returned", invoice_events(resp), resp)
    /\ UNCHANGED << ingest, calc, limiter, vault, tok, autopay, payments,
                    audit, mail >>

\* get_awaiting_payment_bills: n bills of an ok response, none otherwise.
WireBillsQuery(n) ==
    /\ wire.stage = "bills"
    /\ wire' = [ Sent(IF n = 0 THEN "returned" ELSE "payments",
                      bills_query_events, IF n = 0 THEN "none" ELSE "bills")
                 EXCEPT !.bills = n ]
    /\ UNCHANGED << ingest, calc, limiter, vault, tok, autopay, payments,
                    audit, mail >>

\* for bill in bills: create_automatic_payment, whose exception is logged
\* by the loop.
WirePayment(resp) ==
    /\ wire.stage = "payments"
    /\ wire' = [ Sent(IF wire.bills = 1 THEN "returned" ELSE "payments",
                      payment_events, resp)
                 EXCEPT !.bills = @ - 1 ]
    /\ UNCHANGED << ingest, calc, limiter, vault, tok, autopay, payments,
                    audit, mail >>

WireInit == IngestIdle /\ AuxIdle

WireNext ==
    \/ \E kind \in { "sync", "autopay" } : WireStart(kind)
    \/ \E outcome \in TokenOutcomes : WireToken(outcome)
    \/ \E resp \in { "hit", "miss", "not_ok", "raises" } :
         WireContactSearch(resp)
    \/ \E resp \in { "ok", "not_ok", "raises" } : WireContactCreate(resp)
    \/ \E resp \in { "ok", "not_ok", "raises", "raises_before" } :
         WireInvoice(resp)
    \/ \E n \in 0..MaxWireBills : WireBillsQuery(n)
    \/ \E resp \in { "ok", "not_ok", "raises" } : WirePayment(resp)

WireSpec == WireInit /\ [][WireNext]_vars

\* How often an event is in the log of the current call.
Sends(x) == Cardinality({ i \in 1..Len(wire.log) : wire.log[i] = x })

\* C21: every request to the ledger API is immediately preceded, in its
\* invocation, by a wait_if_needed of its own.
EveryRequestPaced ==
    \A i \in 1..Len(wire.log) :
        wire.log[i] \in LedgerRequests
            => i > 1 /\ wire.log[i - 1] = "wait"

\* A sync that searched, created the contact and posted the bill.
EveryRequestPacedWitness ==
    /\ wire.stage = "returned"
    /\ wire.kind = "sync"
    /\ Sends("contact_search") = 1
    /\ Sends("contact_create") = 1
    /\ Sends("invoice_create") = 1
    /\ Sends("wait") = 3

\* C22: one process_to_xero invocation sends at most one contact search,
\* one contact create, one invoice create and one token refresh.
NothingRetried ==
    wire.kind = "sync"
        => \A x \in { "contact_search", "contact_create", "invoice_create",
                      "token_refresh" } : Sends(x) <= 1

\* A sync whose token was refreshed and whose search and create were both
\* refused has returned.
NothingRetriedWitness ==
    /\ wire.stage = "returned"
    /\ wire.kind = "sync"
    /\ wire.answers = << "refreshed", "not_ok", "not_ok" >>
    /\ wire.log = << "token_refresh", "wait", "contact_search", "wait",
                     "contact_create" >>

\* -------------------------------------------- two invocations at a time

\* The clock of concurrent invocations: a second may pass at any step.
ConcTick ==
    /\ now < MaxTime
    /\ now' = now + 1
    /\ UNCHANGED << faults, stores, pc, cur, sweep, aux >>

\* The function host runs the blob trigger (w1) and the timer's sweeper
\* (w2) whenever their events arrive, each on its own worker, whatever
\* the other is doing.
ConcNext ==
    \/ ConcTick
    \/ \E t \in TenantIds : \E k \in UploadKeys(t) : \E b \in Bytes :
         Upload(t, k, b)
    \/ \E t \in TenantIds : \E b \in uploads[t] : BlobTrigger("w1", t, b)
    \/ SweepStart("w2")
    \/ \E w \in Workers : Step(w)

\* The stores as in Init, and no store call raises: the failure budget is
\* used up from the start.
ConcInit ==
    /\ now = 0
    /\ faults = MaxFaults
    /\ \/ tenants = << >>
       \/ \E d \in TenantDocs : tenants = [ t \in TenantIds |-> d ]
    /\ \E i \in { "none", "partial", "full" } :
          /\ integrations = [ t \in TenantIds |-> i ]
          /\ i # "none" => \A t \in TenantIds :
                 t \in DOMAIN tenants /\ tenants[t].processingEnabled
    /\ uploads = [ t \in TenantIds |-> {} ]
    /\ processing = [ t \in TenantIds |-> {} ]
    /\ complete = [ t \in TenantIds |-> {} ]
    /\ receipts = {}
    /\ contacts = [ t \in TenantIds |-> << >> ]
    /\ bills = {}
    /\ pc = [ w \in Workers |-> "idle" ]
    /\ cur = [ w \in Workers |-> NoCall ]
    /\ sweep = [ w \in Workers |-> NoSweep ]
    /\ AuxIdle

ConcSpec == ConcInit /\ [][ConcNext]_vars

\* The invocation on worker w has persisted its receipt and has not yet
\* deleted the upload.
MidIngest(w) ==
    /\ pc[w] \notin { "idle", "done" }
    /\ cur[w].rid # None
    /\ cur[w].deleted = "none"

\* C23: while an invocation is between persisting the receipt and
\* deleting the upload, the sweeper does not pass the same upload to
\* process_receipt_blob.
NoSweepOfDocumentInFlight ==
    [][ \A w, v \in Workers :
          (/\ w # v
           /\ MidIngest(v)
           /\ cur[w].caller = "none"
           /\ cur'[w].caller = "sweeper")
              => ~(cur'[w].tenant = cur[v].tenant /\ cur'[w].name = cur[v].name)
      ]_vars

\* C28: no record-store call failing, every completed usage update of an
\* ingest leaves the tenant's receiptsProcessed one higher than it was.
UsageIncrementNotLost ==
    [][ \A w \in Workers :
          (pc[w] = "usage_write" /\ pc'[w] = "delete")
              => tenants'[cur[w].tenant].receiptsProcessed
                     = tenants[cur[w].tenant].receiptsProcessed + 1 ]_vars

\* ------------------------- get_xero_access_token, two calls at a time

\* The locals of a call that is not running.
NoTokCall == [ stage |-> "idle", token_data |-> None, new_token |-> None,
               result |-> None ]

\* get_xero_access_token is entered by process_to_xero or
\* process_auto_payments on worker w.
TokCall(w) ==
    /\ tok.calls[w].stage = "idle"
    /\ tok' = [ tok EXCEPT !.calls[w] = [ NoTokCall EXCEPT !.stage = "read" ] ]
    /\ UNCHANGED << ingest, calc, limiter, vault, autopay, payments, audit,
                    mail, wire >>

\* keyvault_client.get_secret and the validity test: the cached token is
\* returned, or the call goes on to refresh_xero_token with the bundle's
\* refresh token, or it returns None.
TokRead(w, read) ==
    /\ tok.calls[w].stage = "read"
    /\ read \in ReadOutcomes(vault)
    /\ tok' = [ tok EXCEPT !.calls[w] =
         IF read = "raises"
         THEN [ @ EXCEPT !.stage = "returned" ]
         ELSE IF TokenStillValid(now, vault[1])
         THEN [ @ EXCEPT !.stage = "returned",
                         !.result = Some(vault[1].access_token) ]
         ELSE IF vault[1].refresh_token # None
         THEN [ @ EXCEPT !.stage = "refresh", !.token_data = vault ]
         ELSE [ @ EXCEPT !.stage = "returned" ] ]
    /\ UNCHANGED << ingest, calc, limiter, vault, autopay, payments, audit,
                    mail, wire >>

\* refresh_xero_token: requests.post to the token endpoint with the
\* refresh token that was read.
TokPost(w) ==
    /\ tok.calls[w].stage = "refresh"
    /\ tok' = [ tok EXCEPT !.calls[w].stage = "in_flight" ]
    /\ UNCHANGED << ingest, calc, limiter, vault, autopay, payments, audit,
                    mail, wire >>

\* The token endpoint answers: a new bundle, or a refusal or an exception
\* (None is returned).
TokAnswer(w, outcome) ==
    /\ tok.calls[w].stage = "in_flight"
    /\ outcome = "ok" => tok.issued < MaxRefreshes
    /\ tok' =
         IF outcome = "ok"
         THEN [ tok EXCEPT
                  !.issued = @ + 1,
                  !.calls[w].stage = "store",
                  !.calls[w].new_token =
                      Some([ access_token |-> tok.issued + 1,
                             expires_at |-> Some(now + expires_in),
                             refresh_token |-> Some(tok.issued + 1) ]) ]
         ELSE [ tok EXCEPT !.calls[w].stage = "returned" ]
    /\ UNCHANGED << ingest, calc, limiter, vault, autopay, payments, audit,
                    mail, wire >>

\* keyvault_client.set_secret(secret_name, json.dumps(new_token)), then
\* return new_token["access_token"].
TokStore(w) ==
    /\ tok.calls[w].stage = "store"
    /\ vault' = tok.calls[w].new_token
    /\ tok' = [ tok EXCEPT
                  !.calls[w].stage = "returned",
                  !.calls[w].result = Some(tok.calls[w].new_token[1].access_token) ]
    /\ UNCHANGED << ingest, calc, limiter, autopay, payments, audit, mail,
                    wire >>

\* The call has returned to its caller.
TokReturn(w) ==
    /\ tok.calls[w].stage = "returned"
    /\ tok' = [ tok EXCEPT !.calls[w] = NoTokCall ]
    /\ UNCHANGED << ingest, calc, limiter, vault, autopay, payments, audit,
                    mail, wire >>

TokConcInit ==
    /\ IngestIdle
    /\ vault \in { None } \cup { Some(b) : b \in StoredBundles }
    /\ tok = [ calls |-> [ w \in Workers |-> NoTokCall ], issued |-> 0 ]
    /\ calc = NoCalc
    /\ limiter = NewLimiter
    /\ autopay = NoAutoPay
    /\ payments = {}
    /\ audit = {}
    /\ mail = NoMail
    /\ wire = NoWire

TokConcNext ==
    \/ TokenTick
    \/ \E w \in Workers :
         \/ TokCall(w)
         \/ \E read \in { "ok", "raises" } : TokRead(w, read)
         \/ TokPost(w)
         \/ \E outcome \in { "ok", "rejected", "raises" } :
              TokAnswer(w, outcome)
         \/ TokStore(w)
         \/ TokReturn(w)

TokConcSpec == TokConcInit /\ [][TokConcNext]_vars

\* The calls whose refresh request is in flight.
RefreshesInFlight ==
    { w \in Workers : tok.calls[w].stage = "in_flight" }

\* C24: at most one refresh request with the stored refresh token is in
\* flight at any time.
RefreshMutuallyExclusive == Cardinality(RefreshesInFlight) <= 1

\* ------------------------------------------ an invocation that is killed

\* No invocation is running: every worker is idle or gone.
Quiet == \A w \in Workers : pc[w] \in { "idle", "killed" }

\* The host stops the invocation on worker w after store_receipt_data and
\* before delete_from_uploads: the worker executes nothing further, and
\* what it had written stays.
Kill(w) ==
    /\ MidIngest(w)
    /\ pc' = [ pc EXCEPT ![w] = "killed" ]
    /\ UNCHANGED << now, faults, stores, cur, sweep, aux >>

\* The blob trigger runs on w1 and may be killed; the timer's sweeper
\* runs on w2, one run after the other.
CrashNext ==
    \/ ConcTick
    \/ \E t \in TenantIds : \E k \in UploadKeys(t) : \E b \in Bytes :
         Upload(t, k, b)
    \/ \E t \in TenantIds : \E b \in uploads[t] :
         Quiet /\ BlobTrigger("w1", t, b)
    \/ Kill("w1")
    \/ Quiet /\ SweepStart("w2")
    \/ \E w \in Workers : Step(w)

\* Sweeps keep running and every running invocation keeps taking steps;
\* no store call fails.
CrashSpec ==
    /\ ConcInit
    /\ [][CrashNext]_vars
    /\ WF_vars(Quiet /\ SweepStart("w2"))
    /\ \A w \in Workers : WF_vars(Step(w))

\* The invocation on w1 was killed between persisting its receipt and
\* deleting the upload.
KilledMidIngest ==
    /\ pc["w1"] = "killed"
    /\ cur["w1"].rid # None
    /\ \E r \in ReceiptOf("w1") : r.status = "processing"

\* C25: the receipt of an invocation killed after persisting it and before
\* deleting the upload eventually reaches completed or failed.
KilledReceiptRecovers ==
    KilledMidIngest ~> (\E r \in ReceiptOf("w1") : r.status \in Terminal)

\* ------------------------------------- a sweeper run over a full namespace

\* The names of the documents waiting in the first tenant's upload
\* namespace: one more than the sweeper takes in a run.
BacklogKeys ==
    { << "r1.pdf" >>, << "r2.pdf" >>, << "r3.pdf" >>, << "r4.pdf" >>,
      << "r5.pdf" >>, << "r6.pdf" >> }

\* Uploads the blob trigger has missed: a backlog for the first tenant of
\* the query's order, one document for the second.
Backlog ==
    [ t \in TenantIds |->
        IF t = Head(TenantOrder)
        THEN { [ name |-> k, bytes |-> "B1" ] : k \in BacklogKeys }
        ELSE { [ name |-> << "r1.pdf" >>, bytes |-> "B1" ] } ]

\* One upload the blob trigger has missed, of either tenant.
Missed(t) ==
    [ u \in TenantIds |->
        IF u = t THEN { [ name |-> << "r1.pdf" >>, bytes |-> "B1" ] } ELSE {} ]

\* The state before a sweeper run.  Either one upload is waiting, with the
\* tenants and integrations of Init; or the uploads of tenants without a
\* ledger integration have piled up, each tenant has its own
\* processingEnabled setting, and the clock is at its bound, so that the
\* ids of the run's receipts differ by the document's name.
BacklogInit ==
    /\ faults = 0
    /\ \/ /\ now = 0
          /\ tenants = << >> \/ \E d \in TenantDocs :
                                  tenants = [ t \in TenantIds |-> d ]
          /\ \E i \in { "none", "partial", "full" } :
                /\ integrations = [ t \in TenantIds |-> i ]
                /\ i # "none" => \A t \in TenantIds :
                       t \in DOMAIN tenants /\ tenants[t].processingEnabled
          /\ \E t \in TenantIds : uploads = Missed(t)
       \/ /\ now = MaxTime
          /\ \E docs \in [ TenantIds -> TenantDocs ] : tenants = docs
          /\ integrations = [ t \in TenantIds |-> "none" ]
          /\ uploads = Backlog
    /\ processing = [ t \in TenantIds |-> {} ]
    /\ complete = [ t \in TenantIds |-> {} ]
    /\ receipts = {}
    /\ contacts = [ t \in TenantIds |-> << >> ]
    /\ bills = {}
    /\ pc = [ w \in Workers |-> "idle" ]
    /\ cur = [ w \in Workers |-> NoCall ]
    /\ sweep = [ w \in Workers |-> NoSweep ]
    /\ AuxIdle

\* The timer fires every 15 minutes; nothing else runs.
BacklogNext ==
    \/ Tick
    \/ AllIdle /\ SweepStart("w1")
    \/ Step("w1")

\* An invocation runs to its end once started.
BacklogSpec == BacklogInit /\ [][BacklogNext]_vars /\ WF_vars(Step("w1"))

\* How many of the blobs passed to process_receipt_blob in the run so far
\* are tenant t's.
PassedOf(w, t) ==
    Cardinality({ i \in 1..Len(sweep[w].passed) : sweep[w].passed[i][1] = t })

\* The tenants the query selects: active, with processingEnabled = true.
Selectable(t) ==
    /\ t \in DOMAIN tenants
    /\ tenants[t].status = "active"
    /\ tenants[t].processingEnabled

\* C29: in one run of scheduled_processing_function at most 5 uploads of
\* any tenant are passed to process_receipt_blob, however many blobs the
\* tenant's upload namespace holds, and only tenants that are active with
\* processingEnabled = true are visited.
SweepCapAndFilter ==
    \A w \in Workers :
        /\ \A t \in TenantIds : PassedOf(w, t) <= 5
        /\ \A i \in 1..Len(sweep[w].visited) : Selectable(sweep[w].visited[i])
        /\ \A i \in 1..Len(sweep[w].passed) :
               Selectable(sweep[w].passed[i][1])

\* The run has visited its last tenant; the first tenant had six uploads
\* waiting and five of them were passed on, the second tenant has
\* processing switched off and was left out with its upload waiting.
SweepCapAndFilterWitness ==
    /\ pc["w1"] = "sweep_tenant"
    /\ sweep["w1"].tenants = << >>
    /\ Cardinality(uploads[TenantA]) = 6
    /\ PassedOf("w1", TenantA) = 5
    /\ ~Selectable(TenantB)
    /\ uploads[TenantB] # {}
    /\ sweep["w1"].visited = << TenantA >>

\* The run is in its loops.
SweepRunning(w) == pc[w] # "idle" /\ sweep[w] # NoSweep

\* The blobs of the current tenant still to come, as << tenant, name >>.
BlobsToCome(w) ==
    [ i \in 1..Len(sweep[w].blobs) |-> << sweep[w].tenant, sweep[w].blobs[i] >> ]

\* Nothing selected has been dropped: the tenants visited and those still
\* to come are the tenants the query returned, and the blobs whose
\* download was attempted and those still to come are the blobs selected.
NothingDropped(w) ==
    /\ sweep[w].visited \o sweep[w].tenants = sweep[w].queried
    /\ sweep[w].tried \o BlobsToCome(w) = sweep[w].selected

\* C30: whatever fails in listing, downloading or processing one document
\* or one tenant, every other selected document of the tenant and every
\* other selected tenant is still attempted, and the run comes to its end.
SweepNeverAborts ==
    /\ [](\A w \in Workers : NothingDropped(w))
    /\ SweepRunning("w1") ~> (pc["w1"] = "idle")

\* The run has visited its last tenant: the download of one of the first
\* tenant's blobs failed, the extraction of another failed, the blobs
\* after them were passed on, and so was the second tenant's upload.
SweepNeverAbortsWitness ==
    /\ pc["w1"] = "sweep_tenant"
    /\ sweep["w1"].tenants = << >>
    /\ sweep["w1"].visited = << TenantA, TenantB >>
    /\ Len(sweep["w1"].tried) = 6
    /\ Len(sweep["w1"].passed) = 5
    /\ sweep["w1"].tried[1] # sweep["w1"].passed[1]
    /\ PassedOf("w1", TenantB) = 1
    /\ Cardinality({ r \in receipts : r.tenantId = TenantA }) = 3

\* ------------------------------------------ which line items are dropped

\* C32: an extracted line item is dropped exactly when it is missing both
\* its description and its amount: the Receipt's items are the entries
\* that have a description or an amount, in order, each with quantity 1
\* when the entry has none.
DroppedIffMissingBoth ==
    calc.stage \in { "extracted", "posted" }
        => LET claimed == SelectSeq(calc.raw_items,
                              LAMBDA raw : raw.description # None
                                           \/ raw.price # None)
               its == calc.receipt_data.items
           IN  /\ Len(its) = Len(claimed)
               /\ \A i \in 1..Len(its) :
                    its[i].quantity = IF claimed[i].quantity # None
                                      THEN claimed[i].quantity[1] ELSE 1

\* ------------------------------------- process_auto_payments: the bills

\* The bills of the ledgers whose list was fetched, by InvoiceID.
BillOf(invoice) ==
    LedgerBills(invoice[1], autopay.config[invoice[1]])[invoice[2]]

\* C31: exactly one payment request is issued per listed bill, in the
\* order of the list, for the bill's AmountDue against the tenant's bank
\* account; a bill with AmountDue <= 0 gets none; a failed payment does
\* not stop the loop, and the payments accepted before it stay.
OneRequestPerListedBill ==
    autopay.stage \in { "running", "done" }
        => LET reqs == autopay.requests
           IN  /\ Len(reqs) + Len(autopay.bills) = Len(autopay.listed)
               /\ \A i \in 1..Len(reqs) :
                    LET bill == autopay.listed[i]
                        t == bill.InvoiceID[1]
                    IN  /\ reqs[i].request.InvoiceID = bill.InvoiceID
                        /\ reqs[i].request.tenant = t
                        /\ reqs[i].request.Amount = bill.AmountDue
                        /\ reqs[i].request.AccountID =
                               autopay.config[t].bankAccountId[1]
                        /\ BillOf(bill.InvoiceID).AmountDue > 0
               /\ \A i, j \in 1..Len(autopay.listed) :
                    (i < j /\ autopay.listed[i].InvoiceID[1]
                               = autopay.listed[j].InvoiceID[1])
                        => autopay.listed[i].InvoiceID[2]
                               < autopay.listed[j].InvoiceID[2]
               /\ payments = { reqs[i].request :
                                 i \in { k \in 1..Len(reqs) :
                                           reqs[k].accepted } }

\* A finished run in which the ledger rejected the payment of a tenant's
\* first bill and accepted the payment of its second.
OneRequestPerListedBillWitness ==
    /\ autopay.stage = "done"
    /\ \E i \in 1..Len(autopay.requests) - 1 :
         /\ ~autopay.requests[i].accepted
         /\ autopay.requests[i + 1].accepted
         /\ autopay.requests[i].request.tenant
                = autopay.requests[i + 1].request.tenant
    /\ \E t \in TenantIds : autopay.config[t].amounts = << 0, 2500 >>
                            /\ \E i \in 1..Len(autopay.requests) :
                                 autopay.requests[i].request.tenant = t

ReceiptOnlyAfterExtraction ==
    /\ \A r \in receipts : r.merchant # "None" /\ r.status # "uploaded"
    /\ \A r1, r2 \in receipts :
         (/\ r1.tenantId = r2.tenantId
          /\ r1.filename[Len(r1.filename)] = r2.filename[Len(r2.filename)])
             => r1 = r2

\* ------------------------------------------- process_to_xero: the order

\* The requests of worker w's invocation that come after each failure.
CallsAfter(why) ==
    CASE why = "not_configured" ->
            { "token", "contact_search", "contact_create", "invoice_create" }
      [] why \in { "no_token", "exception" } ->
            { "contact_search", "contact_create", "invoice_create" }
      [] why = "no_contact" -> { "invoice_create" }
      [] OTHER -> {}

\* C35: an invoice-create request is issued only after a token was
\* obtained and a contact id was resolved in the same invocation; after a
\* failed step no later step's request is made, the invocation creates no
\* bill it does not record, and its Receipt is given no invoice id.
SyncStepsInOrder ==
    \A w \in Workers :
        /\ cur[w].calls \cap LedgerCalls # {} => "token" \in cur[w].calls
        /\ "invoice_create" \in cur[w].calls
               => /\ "contact_search" \in cur[w].calls
                  /\ cur[w].contact # 0
        /\ "contact_create" \in cur[w].calls
               => "contact_search" \in cur[w].calls
        /\ cur[w].calls \cap CallsAfter(cur[w].sync) = {}
        /\ cur[w].sync \notin { "none", "success" }
               => /\ cur[w].invoice = 0
                  /\ \A r \in ReceiptOf(w) : r.xeroInvoiceId = None

\* An invocation has ended whose contact could be neither found nor
\* created: both contact requests were made, no invoice request was.
SyncStepsInOrderWitness ==
    \E w \in Workers :
        /\ pc[w] = "done"
        /\ cur[w].sync = "no_contact"
        /\ { "token", "contact_search", "contact_create" } \subseteq cur[w].calls
        /\ ReceiptOf(w) # {}

\* ------------------------------------------ a refreshed token is reused

\* C36: when the cached token was not usable and the refresh request
\* succeeded, the secret holds a new bundle with expires_at = now +
\* expires_in and the call returned its access token; a following call
\* that reads the secret while now < expires_at - 300 returns the same
\* token, sends no refresh request and leaves the secret as it is.
RefreshedTokenReused ==
    [][ (tok.stage = "returned" /\ tok.outcome = "ok")
            => /\ vault # None
               /\ vault[1].expires_at = Some(tok.at + expires_in)
               /\ tok.result = Some(vault[1].access_token)
               /\ tok.result # Some(tok.before[1].access_token)
               /\ (/\ now' = now
                   /\ tok'.read = "ok"
                   /\ now < tok.at + expires_in - 300)
                      => /\ tok'.result = tok.result
                         /\ tok'.requests = 0
                         /\ vault' = vault ]_vars

\* A call has returned, without a request, the token an earlier call's
\* refresh had stored.
RefreshedTokenReusedWitness ==
    /\ tok.stage = "returned"
    /\ tok.read = "ok"
    /\ tok.before[1].access_token = 1
    /\ tok.before[1].expires_at # None
    /\ tok.requests = 0
    /\ tok.result = Some(1)
    /\ vault = tok.before

\* ------------------------------- create_or_get_xero_contact, concurrent

\* C37: under concurrent invocations a sync whose search found no contact
\* of the merchant's name does not add a second contact of that name: at
\* the time of its create request the ledger still has none, whatever
\* another invocation has done in between.
NoDuplicateContactByInterleaving ==
    [][ \A w \in Workers :
          (/\ pc[w] = "contact_create"
           /\ cur[w].existing = 0
           /\ contacts'[cur[w].tenant] # contacts[cur[w].tenant])
              => ExactMatch(contacts[cur[w].tenant], cur[w].merchant) = 0
      ]_vars

\* ----------------------------------- the partition the updates write to

\* C38: for every tenant id, ids containing '-' included, the updates of
\* an ingest reach the Receipt store_receipt_data created: after an
\* update_receipt_status or update_receipt_xero_info whose store calls did
\* not fail, that Receipt holds the status, or the invoice id and
\* xeroStatus, the update was called with.
UpdatesReachTheReceipt ==
    [][ \A w \in Workers :
          (ReceiptOf(w) # {} /\ faults' = faults)
              => /\ (pc[w] = "update_status" /\ pc'[w] = "usage_read")
                     => \E r \in receipts' :
                            /\ r.id = cur[w].rid
                            /\ r.tenantId = cur[w].tenant
                            /\ r.status = FinalStatus(cur[w].xeroOK)
                 /\ (pc[w] = "xero_update" /\ pc'[w] = "to_complete")
                     => \E r \in receipts' :
                            /\ r.id = cur[w].rid
                            /\ r.tenantId = cur[w].tenant
                            /\ r.xeroInvoiceId = Some(cur[w].invoice)
                            /\ r.xeroStatus = "success" ]_vars

\* ------------------------------ EmailReceiptProcessor.process_email

\* An email has at most MaxAttachments attachment parts.
MaxAttachments == 2

\* SUPPORTED_EXTENSIONS, by file name.
SupportedExtension(filename) == filename \in { "a.pdf", "b.pdf" }

\* The attachment parts of an email: a file name with a supported
\* extension or not, and a payload that may be empty.
Parts == [ filename : { "a.pdf", "b.pdf", "x.exe" }, content : { "", "B1" } ]

\* The emails the webhook may receive.  Recipients: the address mapped to
\* each tenant and one that is not mapped.  Senders: a user of tenant acme
\* (users container), an address listed in acme's authorizedSenders, a
\* stranger, and an email without a From header (the empty address).
InboxEmails ==
    [ to_email : { "acme@receipts", "f3a1-9c2e@receipts", "nobody@receipts" },
      from_email : { "ann@acme.test", "bob@acme.test", "eve@else.test", "" },
      attachments : UNION { [ 1..n -> Parts ] : n \in 0..MaxAttachments } ]

\* email_mappings_container.query_items(... c.emailAddress = @email): the
\* tenantId of each mapping found.
Mappings(to_email) ==
    CASE to_email = "acme@receipts" -> << << "acme" >> >>
      [] to_email = "f3a1-9c2e@receipts" -> << << "f3a1", "9c2e" >> >>
      [] OTHER -> << >>

\* tenant.get('settings', {}).get('authorizedSenders', [])
authorizedSenders(t) == IF t = << "acme" >> THEN { "bob@acme.test" } ELSE {}

\* The users of a tenant, as UserService.create_user stores them in the
\* users container.
UsersOf(t) == IF t = << "acme" >> THEN { "ann@acme.test" } ELSE {}

\* user.get('email', '') of the documents of the tenants container with
\* c.tenantId = @tenant_id: the tenant document, which has no email key.
TenantsContainerEmails(t) == { "" }

\* _is_sender_authorized(tenant_id, sender_email); False on any exception.
is_sender_authorized(t, sender_email, lookup) ==
    /\ lookup # "authorization_raises"
    /\ \/ sender_email \in TenantsContainerEmails(t)
       \/ sender_email \in authorizedSenders(t)

\* _get_tenant_by_email(to_email, from_email): the tenant of the first
\* mapping the sender is authorized for; None on any exception.
get_tenant_by_email(to_email, from_email, lookup) ==
    LET hits == SelectSeq(Mappings(to_email),
                          LAMBDA t : is_sender_authorized(t, from_email, lookup))
    IN  IF lookup = "mappings_raises" \/ hits = << >> THEN None
        ELSE Some(Head(hits))

\* _extract_attachments(msg): the parts with a file name of a supported
\* extension and a non-empty payload.
extract_attachments(parts) ==
    SelectSeq(parts, LAMBDA p : SupportedExtension(p.filename)
                                /\ p.content # "")

\* f"email_{timestamp}_{email_hash}_{filename}", the timestamp to the
\* second, email_hash a digest of the sender's address.
safe_filename(time, sender_email, filename) ==
    << "email", DecimalStr(time), sender_email, filename >>

\* process_email up to the loop over the attachments: the tenant lookup
\* and the extraction of the attachments; it returns False when no tenant
\* is found or no attachment is valid.
process_email(lookup) ==
    /\ mail.stage = "received"
    /\ lookup # "ok" => CanFault
    /\ faults' = IF lookup = "ok" THEN faults ELSE faults + 1
    /\ LET e == mail.email
           tenant_id == get_tenant_by_email(e.to_email, e.from_email, lookup)
           attachments == extract_attachments(e.attachments)
       IN  mail' = IF tenant_id = None \/ attachments = << >>
                   THEN [ mail EXCEPT !.stage = "done", !.lookup = lookup,
                                      !.result = "False" ]
                   ELSE [ mail EXCEPT !.stage = "attachments",
                                      !.lookup = lookup,
                                      !.tenant = tenant_id,
                                      !.queue = attachments ]
    /\ UNCHANGED << now, stores, pc, cur, sweep, calc, limiter, vault, tok,
                    autopay, payments, audit, wire >>

\* _process_attachment for the next attachment: upload_blob(overwrite=True)
\* under the generated name, whose exception ends the attachment with
\* False; then _create_receipt_record, whose create_item exception (a
\* conflict, a store failure) is swallowed; True.
process_attachment(up_ok, rec_ok) ==
    /\ mail.stage = "attachments"
    /\ mail.queue # << >>
    /\ ~up_ok => rec_ok
    /\ ~(up_ok /\ rec_ok) => CanFault
    /\ faults' = IF up_ok /\ rec_ok THEN faults ELSE faults + 1
    /\ LET t == mail.tenant[1]
           attachment == Head(mail.queue)
           name == safe_filename(now, mail.email.from_email,
                                 attachment.filename)
           doc == email_receipt_document(t, name, now)
       IN  /\ uploads' = IF up_ok
                         THEN [ uploads EXCEPT ![t] =
                                  PutBlob(@, name, attachment.content) ]
                         ELSE uploads
           /\ receipts' =
                IF up_ok /\ rec_ok /\
                   ~\E r \in receipts :
                       r.id = doc.id /\ r.tenantId = doc.tenantId
                THEN receipts \cup { doc }
                ELSE receipts
           /\ mail' = [ mail EXCEPT
                          !.queue = Tail(@),
                          !.processed_count = IF up_ok THEN @ + 1 ELSE @,
                          !.upload_failed = @ \/ ~up_ok ]
    /\ UNCHANGED << now, tenants, integrations, processing, complete,
                    contacts, bills, pc, cur, sweep, calc, limiter, vault,
                    tok, autopay, payments, audit, wire >>

\* process_email after the loop: return processed_count > 0.
process_email_returns ==
    /\ mail.stage = "attachments"
    /\ mail.queue = << >>
    /\ mail' = [ mail EXCEPT !.stage = "done",
                             !.result = IF mail.processed_count > 0
                                        THEN "True" ELSE "False" ]
    /\ UNCHANGED << now, faults, stores, pc, cur, sweep, calc, limiter,
                    vault, tok, autopay, payments, audit, wire >>

\* The webhook has received an email; the stores are empty.
InboxInit ==
    /\ IngestIdle
    /\ \E e \in InboxEmails :
         mail = [ stage |-> "received", email |-> e, lookup |-> "none",
                  tenant |-> None, queue |-> << >>, processed_count |-> 0,
                  upload_failed |-> FALSE, result |-> "none" ]
    /\ calc = NoCalc
    /\ limiter = NewLimiter
    /\ vault = << >>
    /\ tok = NoTok
    /\ autopay = NoAutoPay
    /\ payments = {}
    /\ audit = {}
    /\ wire = NoWire

InboxNext ==
    \/ \E lookup \in { "ok", "mappings_raises", "authorization_raises" } :
         process_email(lookup)
    \/ \E up_ok, rec_ok \in BOOLEAN : process_attachment(up_ok, rec_ok)
    \/ process_email_returns
    \/ MailTick

InboxSpec == InboxInit /\ [][InboxNext]_vars

\* The sender is authorized for the tenant: one of its users, or listed
\* in its authorizedSenders.
SenderAuthorizedFor(t, sender_email) ==
    sender_email \in UsersOf(t) \cup authorizedSenders(t)

\* The tenant has got something from the email path.
WrittenTo(t) == uploads[t] # {} \/ \E r \in receipts : r.tenantId = t

\* C39: the email path writes into a tenant's upload namespace and the
\* receipts store only when the recipient address maps to the tenant and
\* the sender is authorized for it, and only attachments with a supported
\* extension and a non-empty payload; for an unmapped recipient, an
\* unauthorized sender or a failed lookup it writes nothing and returns
\* failure.
EmailWritesOnlyWhenAuthorized ==
    LET e == mail.email
    IN  /\ \A t \in TenantIds :
             WrittenTo(t)
                 => /\ \E i \in 1..Len(Mappings(e.to_email)) :
                          Mappings(e.to_email)[i] = t
                    /\ SenderAuthorizedFor(t, e.from_email)
                    /\ mail.lookup = "ok"
                    /\ \A b \in uploads[t] :
                          /\ SupportedExtension(b.name[4])
                          /\ b.bytes # ""
        /\ (/\ mail.stage = "done"
            /\ \/ mail.lookup # "ok"
               \/ \A t \in TenantIds :
                    \/ \A i \in 1..Len(Mappings(e.to_email)) :
                          Mappings(e.to_email)[i] # t
                    \/ ~SenderAuthorizedFor(t, e.from_email))
               => /\ \A t \in TenantIds : ~WrittenTo(t)
                  /\ mail.result = "False"

\* The valid attachments of the email.
ValidParts == extract_attachments(mail.email.attachments)

\* C40: when the email carries k valid attachments and every upload has
\* succeeded, the tenant's upload namespace holds k distinct blobs and
\* the receipts store k distinct Receipt records, and the processed count
\* is the number of attachments stored.
EveryAttachmentKept ==
    (/\ mail.stage = "done"
     /\ mail.tenant # None
     /\ faults = 0)
        => /\ Cardinality(uploads[mail.tenant[1]]) = Len(ValidParts)
           /\ Cardinality(receipts) = Len(ValidParts)
           /\ mail.processed_count = Cardinality(uploads[mail.tenant[1]])

====
